---------------------------- MODULE Spec2Model ----------------------------
(***************************************************************************)
(* Kinetix leaderboard: the ranking index adapter (Redis sorted set,       *)
(* metadata hash, version counter), the leaderboard service on top of it   *)
(* and the submission side of the worker pool.                             *)
(*                                                                         *)
(* NUMBERS.  The index adapter computes composite scores in float64 from   *)
(* int64 nanosecond timestamps near 1.7 * 10^18.  These do not fit the     *)
(* model checker's integers, so both are held in exact fixed point:        *)
(*                                                                         *)
(*   timestamp  [period, ns]    = period * 10^10 + ns   nanoseconds        *)
(*   float64    [whole, below]  = whole - below * 2^-25                    *)
(*                                                                         *)
(* For period in [134222729, 230584300] (the years 2012 to 2043) and       *)
(* ns <= 65407 the operators below are the IEEE-754 results bit for bit:   *)
(* float64(int64) rounds to a multiple of 2^8 (t lies in [2^60, 2^61)),    *)
(* the quotient by 10^10 rounds to a multiple of 2^-25 (it lies in         *)
(* [2^27, 2^28)), and 1.0 - q and float64(score) + (1.0 - q) are exact.    *)
(* 10^10 = 2^8 * 39062500 and 39062500 is even, so the period contributes  *)
(* only to the integer part and never to a rounding decision.              *)
(***************************************************************************)
EXTENDS Integers, Sequences, FiniteSets, TLC

(***************************************************************************)
(* Bounds of the model                                                     *)
(***************************************************************************)
\* wall clock at start, in periods of 10^10 ns: 1.7 * 10^18 ns (Nov 2023)
Era == 170000000
\* a later wall-clock reading, PeriodJump periods (about 14 hours) on
PeriodJump == 5000
\* a reading NsLate nanoseconds into a period
NsLate == 5120
\* capacity of the worker pool's job channel
QueueSize == 1
\* the index is followed through its first MaxWrites executed pipelines
MaxWrites == 2
\* number of worker goroutines of the pool
WorkerCount == 1
\* UpdateScore calls followed when the pool is studied
MaxCalls == 3
\* capacity of a subscriber's outbound channel
SendCap == 1

Users == {"a", "b", "c"}
\* lexicographic order of the member names (Redis orders equal scores by member)
UserSeq == <<"a", "b", "c">>
\* ratings a caller may pass to UpdateScore (below, inside and above the range)
RatingInputs == {50, 500, 9999}
\* offsets and limits a caller may pass to GetLeaderboard
Offsets == {-1, 1}
Limits == {0, 2}

(***************************************************************************)
(* Fixed-point float64                                                     *)
(***************************************************************************)
\* spacing of float64 at an int64 nanosecond timestamp of this era: 2^8
Float64TimestampUlp == 256
\* TimestampDivisor = 10^10 = 2^10 * FivePow10
FivePow10 == 9765625
\* 2^25 / 2^10 * 2^8: a float64 timestamp of h * 2^8 ns is h * TwoPow23 / FivePow10 quanta of 2^-25
TwoPow23 == 8388608
\* %f prints six decimals: 10^6 = 2^6 * FivePow6, 2^25 = 2^6 * TwoPow19
FivePow6 == 15625
TwoPow19 == 524288

\* num / den rounded to the nearest integer, ties to even (num >= 0, den > 0)
RoundHalfEven(num, den) ==
  LET q == num \div den
      r == num % den
  IN  IF 2 * r > den \/ (2 * r = den /\ q % 2 = 1) THEN q + 1 ELSE q

\* float64(timestamp) / TimestampDivisor, as period + frac * 2^-25
Float64Quotient(timestamp) ==
  LET h == RoundHalfEven(timestamp.ns, Float64TimestampUlp)
  IN  [whole |-> timestamp.period, frac |-> RoundHalfEven(h * TwoPow23, FivePow10)]

Greater(x, y) ==
  x.whole > y.whole \/ (x.whole = y.whole /\ x.below < y.below)

\* fmt.Sprintf("%f", x) read back by the server's strtod: x rounded to six
\* decimals, then to the nearest float64 (x <= 0, below < 2^17)
FormatParse6(x) ==
  LET micro == RoundHalfEven(x.below * FivePow6, TwoPow19)
  IN  [whole |-> x.whole, below |-> RoundHalfEven(micro * TwoPow19, FivePow6)]

(***************************************************************************)
(* repository/redis.go                                                     *)
(***************************************************************************)
ComputeCompositeScore(score, timestamp) ==
  LET q == Float64Quotient(timestamp)
  IN  [whole |-> score + 1 - q.whole, below |-> q.frac]

\* int(compositeScore): truncation toward zero
ExtractBaseScore(compositeScore) ==
  IF compositeScore.whole <= 0 \/ compositeScore.below = 0
    THEN compositeScore.whole
    ELSE compositeScore.whole - 1

(***************************************************************************)
(* State                                                                   *)
(***************************************************************************)
VARIABLES
  now,           \* wall clock, time.Now().UnixNano() as [period, ns]
  zset,          \* sorted set leaderboard:ratings: member -> composite score
  hash,          \* hash leaderboard:metadata: member -> rating
  version,       \* counter leaderboard:version (0: the key does not exist)
  jobs,          \* WorkerPool.jobs, the buffered channel of ScoreUpdateTask
  backpressure,  \* PoolMetrics.backpressure
  processed,     \* PoolMetrics.processed
  store,         \* the durable users table: username -> rating
  ret,           \* what the last service call returned
  pipe,          \* per caller: the pipeline of an UpdateScore in flight
  zwritten,      \* history: member -> rating and timestamp its index entry was computed from
  lastIn,        \* history: member -> rating passed to its last UpdateScore that returned nil
  calls,         \* history: number of UpdateScore calls that returned nil
  serialOk,      \* history: every index write so far was an UpdateScore that returned nil
  accepted,      \* history: number of tasks Submit put on the job channel
  workers,       \* per worker goroutine: waiting in select, inside processTask, or returned
  closed,        \* the job channel has been closed
  cancelled,     \* WorkerPool.ctx has been cancelled
  shutdown,      \* WorkerPool.Shutdown: not called, waiting, returned nil, returned timeout
  failures,      \* PoolMetrics.failed
  lateStart,     \* history: a worker received a task after Shutdown had returned
  clients,       \* Hub.clients
  lastVersion,   \* Hub.lastVersion
  send,          \* per client: contents of the buffered channel Client.send
  sendClosed,    \* per client: Client.send has been closed
  conn,          \* per client: position of ServeWS / readPump
  pump,          \* per client: position of writePump
  got,           \* history, per client: every version enqueued on Client.send
  regVersion,    \* history, per client: the index version when the hub registered it
  closes,        \* history, per client: number of close(client.send) executed
  simUsers,      \* SimulationManager.users: the working set, [Username, Rating] per slot
  running,       \* SimulationManager.running
  stopCh,        \* SimulationManager.stopCh: "open" or "closed"
  simLoop,       \* the simulationLoop goroutine: position, userIndex, updates left in the batch
  reporter,      \* the metricsReporter goroutine: position
  simCall,       \* the caller of Start / Stop: idle, inside Stop's wg.Wait, or panicked
  totalUpdates,  \* SimulationManager.totalUpdates
  errorCount,  \* SimulationManager.errorCount
  updatesPerTick, \* SimulationManager.updatesPerTick
  pass,          \* history: the usernames simulationLoop picked since the cursor was last at 0
  simLast,       \* history: the last iteration of simulationLoop
  launches,      \* history: number of simulationLoop goroutines started
  mainpc,        \* main: position of main and of its shutdown goroutine
  process,       \* the server process: "up" or "exited"
  rows,          \* the users table with all its columns: a set of models.User
  nextId,        \* the sequence behind users.id
  sock,          \* per client: the frames written to c.conn, the message writePump
                 \* holds, and whether a write failed
  hubDone        \* Hub.Run has returned (ctx.Done())

workerVars == <<workers, closed, cancelled, shutdown, failures, lateStart>>
hubVars == <<clients, lastVersion, send, sendClosed, conn, pump, got, regVersion, closes,
            sock, hubDone>>
simVars == <<simUsers, running, stopCh, simLoop, reporter, simCall, totalUpdates,
             errorCount, updatesPerTick, pass, simLast, launches>>
mainVars == <<mainpc, process>>
tableVars == <<rows, nextId>>
restVars == <<simVars, mainVars, tableVars>>

\* the process has not exited: its goroutines run
Alive == process = "up"

vars == <<now, zset, hash, version, jobs, backpressure, processed, store, ret, pipe,
          zwritten, lastIn, calls, serialOk, accepted, workerVars, hubVars, restVars>>

Workers == 1..WorkerCount
ClientIds == {1, 2}

Callers == {1, 2}

(***************************************************************************)
(* Wall clock                                                              *)
(***************************************************************************)
ClockGrid == {[period |-> p, ns |-> n] : p \in {Era, Era + PeriodJump}, n \in {0, NsLate}}

TsLess(s, t) == s.period < t.period \/ (s.period = t.period /\ s.ns < t.ns)

\* the readings of the clock after t
Later(t) == {x \in ClockGrid : TsLess(t, x)}

(***************************************************************************)
(* Redis commands                                                          *)
(***************************************************************************)
MemberOrd(u) == CHOOSE i \in 1..Len(UserSeq) : UserSeq[i] = u

\* the sorted set's order, highest first: by score, equal scores by member
Above(z, u, v) ==
  Greater(z[u], z[v]) \/ (z[u] = z[v] /\ MemberOrd(u) > MemberOrd(v))

ZAdd(z, member, score) ==
  [u \in DOMAIN z \cup {member} |-> IF u = member THEN score ELSE z[u]]

HSet(h, field, value) ==
  [u \in DOMAIN h \cup {field} |-> IF u = field THEN value ELSE h[u]]

ZCard(z) == Cardinality(DOMAIN z)

\* ZREVRANGE key start stop WITHSCORES, 0 <= start
ZRevRangeWithScores(z, start, stop) ==
  LET n == ZCard(z)
      at(i) == CHOOSE u \in DOMAIN z : Cardinality({v \in DOMAIN z : Above(z, v, u)}) = i - 1
      all == [i \in 1..n |-> [Member |-> at(i), Score |-> z[at(i)]]]
      last == IF stop < n - 1 THEN stop ELSE n - 1
  IN  IF start > last THEN <<>> ELSE SubSeq(all, start + 1, last + 1)

\* ZCOUNT key (min +inf
ZCount(z, min) == Cardinality({v \in DOMAIN z : Greater(z[v], min)})

(***************************************************************************)
(* repository/redis.go: reads                                              *)
(***************************************************************************)
Nil == "nil"
NotFound == "user not found"

GetUserScore(username) ==
  IF username \in DOMAIN hash
    THEN [err |-> Nil, score |-> hash[username]]
    ELSE [err |-> NotFound, score |-> 0]

\* HMGET: users missing from the hash are left out of the map
GetUserScoreBatch(usernames) ==
  [u \in {usernames[i] : i \in 1..Len(usernames)} \cap DOMAIN hash |-> hash[u]]

\* ZSCORE, then ZCOUNT with the exclusive lower bound printed by %f
GetUserRank(username) ==
  IF username \notin DOMAIN zset
    THEN [err |-> NotFound, rank |-> 0]
    ELSE [err |-> Nil, rank |-> ZCount(zset, FormatParse6(zset[username])) + 1]

GetLeaderboardVersion == version

GetTopUsers(offset, limit) ==
  LET results == ZRevRangeWithScores(zset, offset, offset + limit - 1)
  IN  [i \in 1..Len(results) |->
         [Member |-> results[i].Member, Score |-> ExtractBaseScore(results[i].Score)]]

GetTotalUsers == ZCard(zset)

(***************************************************************************)
(* service/leaderboard.go                                                  *)
(***************************************************************************)
MinRating == 100
MaxRating == 5000
DefaultLimit == 50
MaxLimit == 100

\* UpdateScore's score constraints
\* a clamp with the upper limit left out
ClampLow(rating) == IF rating < MinRating THEN MinRating ELSE rating

ClampRating(rating) ==
  IF rating < MinRating THEN MinRating
  ELSE IF rating > MaxRating THEN MaxRating
  ELSE rating

\* the rank carried into entry i from entry i - 1 whose rating differs
\* dense ranking: the rank after a tie group is the next integer
NextRankDense(currentRank, sameRankCount) == currentRank + 1

NextRank(currentRank, sameRankCount) == currentRank + sameRankCount

\* the loop of applyTieAwareRanking from entry i on
RECURSIVE RankLoop(_, _, _, _, _, _)
RankLoop(users, ratings, i, currentRank, previousRating, sameRankCount) ==
  IF i > Len(users) THEN <<>>
  ELSE
    LET username == users[i].Member
        rating == IF username \in DOMAIN ratings THEN ratings[username] ELSE 0
        rank == IF i = 1 \/ rating = previousRating
                  THEN currentRank
                  ELSE NextRank(currentRank, sameRankCount)
        count == IF i = 1 \/ rating /= previousRating THEN 1 ELSE sameRankCount + 1
    IN  <<[Rank |-> rank, Username |-> username, Rating |-> rating]>>
          \o RankLoop(users, ratings, i + 1, rank, rating, count)

applyTieAwareRanking(users, offset) ==
  LET usernames == [i \in 1..Len(users) |-> users[i].Member]
      ratings == GetUserScoreBatch(usernames)
  IN  RankLoop(users, ratings, 1, offset + 1, 0, 0)

NormalOffset(offset) == IF offset < 0 THEN 0 ELSE offset
NormalLimit(limit) == IF limit <= 0 \/ limit > MaxLimit THEN DefaultLimit ELSE limit

GetLeaderboard(offset, limit) ==
  LET o == NormalOffset(offset)
      l == NormalLimit(limit)
  IN  [op |-> "GetLeaderboard", args |-> <<offset, limit>>, err |-> Nil,
       Data |-> applyTieAwareRanking(GetTopUsers(o, l), o),
       Offset |-> o, Limit |-> l, Total |-> GetTotalUsers]

SearchUser(username) ==
  LET rank == GetUserRank(username)
      rating == GetUserScore(username)
  IN  IF rank.err /= Nil
        THEN [op |-> "SearchUser", args |-> username, err |-> rank.err]
      ELSE IF rating.err /= Nil
        THEN [op |-> "SearchUser", args |-> username, err |-> rating.err]
      ELSE [op |-> "SearchUser", args |-> username, err |-> Nil,
            GlobalRank |-> rank.rank, Username |-> username, Rating |-> rating.score]

(***************************************************************************)
(* Writes                                                                  *)
(***************************************************************************)
\* a counter command that leaves the counter alone
Stay(counter) == counter

\* INCR leaderboard:version
Incr(counter) == counter + 1

\* RedisRepository.UpdateScore's pipeline, executed by the server at once:
\* ZADD, HSET, INCR
PipelineExecuted(username, rating, timestamp) ==
  /\ zset' = ZAdd(zset, username, ComputeCompositeScore(rating, timestamp))
  /\ hash' = HSet(hash, username, rating)
  /\ version' = Incr(version)
  /\ zwritten' = HSet(zwritten, username, [rating |-> rating, ts |-> timestamp])

\* a Submit that drops on a full queue without counting it
SubmitSilentDrop(task) ==
  IF Len(jobs) < QueueSize
    THEN /\ jobs' = Append(jobs, task)
         /\ backpressure' = backpressure
         /\ accepted' = accepted + 1
    ELSE /\ jobs' = jobs
         /\ backpressure' = backpressure
         /\ accepted' = accepted

\* a Submit that queues without limit
SubmitUnbounded(task) ==
  /\ jobs' = Append(jobs, task)
  /\ backpressure' = backpressure
  /\ accepted' = accepted + 1

\* WorkerPool.Submit: a non-blocking send on the job channel
Submit(task) ==
  IF Len(jobs) < QueueSize
    THEN /\ jobs' = Append(jobs, task)
         /\ backpressure' = backpressure
         /\ accepted' = accepted + 1
    ELSE /\ jobs' = jobs
         /\ backpressure' = backpressure + 1
         /\ accepted' = accepted

Idle == \A c \in Callers : pipe[c].pc = "idle"

\* the model follows the index through its first MaxWrites executed pipelines
Writable == version < MaxWrites

\* LeaderboardService.UpdateScore, the pipeline's Exec returning nil
UpdateScoreOk(username, rating) ==
  LET r == ClampRating(rating)
  IN  /\ Idle
      /\ Writable
      /\ now' \in Later(now)
      /\ PipelineExecuted(username, r, now)
      /\ Submit([Username |-> username, Rating |-> r])
      /\ ret' = [op |-> "UpdateScore", err |-> Nil]
      /\ lastIn' = HSet(lastIn, username, rating)
      /\ calls' = calls + 1
      /\ UNCHANGED <<workerVars, hubVars, restVars>>
      /\ UNCHANGED <<processed, store, pipe, serialOk>>

\* LeaderboardService.UpdateScore, the pipeline's Exec returning an error: the
\* transport failed before the server read the pipeline (executed = FALSE) or
\* after the server had executed it, with the reply lost (executed = TRUE)
UpdateScoreErr(username, rating, executed) ==
  LET r == ClampRating(rating)
  IN  /\ Idle
      /\ Writable
      /\ now' \in Later(now)
      /\ IF executed
           THEN PipelineExecuted(username, r, now)
           ELSE UNCHANGED <<zset, hash, version, zwritten>>
      /\ ret' = [op |-> "UpdateScore", err |-> "failed to update Redis"]
      /\ serialOk' = FALSE
      /\ UNCHANGED <<accepted, workerVars, hubVars, restVars>>
      /\ UNCHANGED <<jobs, backpressure, processed, store, pipe, lastIn, calls>>

\* the orders in which a Go map over S may be ranged
Orders(S) ==
  {o \in [1..Cardinality(S) -> S] : \A i, j \in 1..Cardinality(S) : i /= j => o[i] /= o[j]}

AllOrders == UNION {Orders(S) : S \in SUBSET Users}

\* RedisRepository.BulkUpdateScores's pipeline executed: entry i of the range
\* is stamped timestamp + (i - 1); one INCR for the batch
BulkExecuted(users, order, timestamp) ==
  LET at(u) == CHOOSE i \in DOMAIN order : order[i] = u
      ts(u) == [period |-> timestamp.period, ns |-> timestamp.ns + at(u) - 1]
  IN  /\ zset' = [u \in DOMAIN zset \cup DOMAIN users |->
                    IF u \in DOMAIN users
                      THEN ComputeCompositeScore(users[u], ts(u))
                      ELSE zset[u]]
      /\ hash' = [u \in DOMAIN hash \cup DOMAIN users |->
                    IF u \in DOMAIN users THEN users[u] ELSE hash[u]]
      /\ version' = Incr(version)
      /\ zwritten' = [u \in DOMAIN zwritten \cup DOMAIN users |->
                        IF u \in DOMAIN users
                          THEN [rating |-> users[u], ts |-> ts(u)]
                          ELSE zwritten[u]]

\* LeaderboardService.SyncRedisFromPostgres over a non-empty store
BulkSync(order, executed, failed) ==
  /\ Idle
  /\ DOMAIN store /= {}
  /\ order \in Orders(DOMAIN store)
  /\ executed \/ failed
  /\ now' \in Later(now)
  /\ IF executed
       THEN BulkExecuted(store, order, now)
       ELSE UNCHANGED <<zset, hash, version, zwritten>>
  /\ ret' = [op |-> "SyncRedisFromPostgres",
             err |-> IF failed THEN "failed to sync to Redis" ELSE Nil]
  /\ serialOk' = FALSE
  /\ UNCHANGED <<accepted, workerVars, hubVars, restVars>>
  /\ UNCHANGED <<jobs, backpressure, processed, store, pipe, lastIn, calls>>

SyncRedisFromPostgres(order, executed, failed) ==
  /\ Writable
  /\ BulkSync(order, executed, failed)

\* LeaderboardService.SyncRedisFromPostgres over an empty store: nothing to sync
SyncNothing ==
  /\ Idle
  /\ DOMAIN store = {}
  /\ ret' = [op |-> "SyncRedisFromPostgres", err |-> Nil]
  /\ UNCHANGED <<accepted, workerVars, hubVars, restVars>>
  /\ UNCHANGED <<now, zset, hash, version, jobs, backpressure, processed, store, pipe,
                 zwritten, lastIn, calls, serialOk>>

\* a worker receives the next task and upserts it into the store
WorkerProcess ==
  /\ jobs /= <<>>
  /\ jobs' = Tail(jobs)
  /\ store' = HSet(store, Head(jobs).Username, Head(jobs).Rating)
  /\ processed' = processed + 1
  /\ UNCHANGED <<accepted, workerVars, hubVars, restVars>>
  /\ UNCHANGED <<now, zset, hash, version, backpressure, ret, pipe,
                 zwritten, lastIn, calls, serialOk>>

(***************************************************************************)
(* Reads                                                                   *)
(***************************************************************************)
GetLeaderboardCall(offset, limit) ==
  /\ ret' = GetLeaderboard(offset, limit)
  /\ UNCHANGED <<accepted, workerVars, hubVars, restVars>>
  /\ UNCHANGED <<now, zset, hash, version, jobs, backpressure, processed, store, pipe,
                 zwritten, lastIn, calls, serialOk>>

SearchUserCall(username) ==
  /\ ret' = SearchUser(username)
  /\ UNCHANGED <<accepted, workerVars, hubVars, restVars>>
  /\ UNCHANGED <<now, zset, hash, version, jobs, backpressure, processed, store, pipe,
                 zwritten, lastIn, calls, serialOk>>

\* time passes
ClockAdvance ==
  /\ now' \in Later(now)
  /\ UNCHANGED <<accepted, workerVars, hubVars, restVars>>
  /\ UNCHANGED <<zset, hash, version, jobs, backpressure, processed, store, ret, pipe,
                 zwritten, lastIn, calls, serialOk>>

(***************************************************************************)
(* Specification: calls served one after the other                         *)
(***************************************************************************)
\* users a previous run left in the durable store
StoredUsers == [u \in Users |-> IF u = "c" THEN 100 ELSE 500]

\* everything main has constructed but the simulator's batch size, the
\* worker pool made by NewWorkerPool(workerCount, QueueSize, postgresRepo)
ConstructedWith(workerCount) ==
  /\ now = [period |-> Era, ns |-> 0]
  /\ zset = <<>>
  /\ hash = <<>>
  /\ version = 0
  /\ jobs = <<>>
  /\ backpressure = 0
  /\ processed = 0
  /\ store \in {<<>>, StoredUsers}
  /\ ret = [op |-> "none", err |-> Nil]
  /\ pipe = [c \in Callers |-> [pc |-> "idle"]]
  /\ zwritten = <<>>
  /\ lastIn = <<>>
  /\ calls = 0
  /\ serialOk = TRUE
  /\ accepted = 0
  /\ workers = [w \in 1..workerCount |-> [st |-> "idle"]]
  /\ closed = FALSE
  /\ cancelled = FALSE
  /\ shutdown = "none"
  /\ failures = 0
  /\ lateStart = FALSE
  /\ clients = {}
  /\ lastVersion = 0
  /\ send = [c \in ClientIds |-> <<>>]
  /\ sendClosed = [c \in ClientIds |-> FALSE]
  /\ conn = [c \in ClientIds |-> "none"]
  /\ pump = [c \in ClientIds |-> "none"]
  /\ got = [c \in ClientIds |-> <<>>]
  /\ regVersion = [c \in ClientIds |-> [ok |-> FALSE, at |-> -1]]
  /\ closes = [c \in ClientIds |-> 0]
  /\ sock = [c \in ClientIds |-> [wire |-> <<>>, held |-> <<>>, broken |-> FALSE]]
  /\ hubDone = FALSE
  /\ simUsers = <<>>
  /\ running = FALSE
  /\ stopCh = "open"
  /\ simLoop = [pc |-> "none", userIndex |-> 0, left |-> 0]
  /\ reporter = "none"
  /\ simCall = "idle"
  /\ totalUpdates = 0
  /\ errorCount = 0
  /\ pass = <<>>
  /\ simLast = [op |-> "none"]
  /\ launches = 0
  /\ mainpc = "boot"
  /\ process = "up"
  /\ rows = {[ID |-> MemberOrd(u), Username |-> u, Rating |-> store[u],
               CreatedAt |-> now, UpdatedAt |-> now] : u \in DOMAIN store}
  /\ nextId = Cardinality(DOMAIN store) + 1

Constructed == ConstructedWith(WorkerCount)

\* main's SimulatorConfig: UpdatesPerTick: 1
Init ==
  /\ Constructed
  /\ updatesPerTick = 1

Next ==
  \/ \E u \in Users, r \in RatingInputs : UpdateScoreOk(u, r)
  \/ \E u \in Users, r \in RatingInputs, executed \in BOOLEAN : UpdateScoreErr(u, r, executed)
  \/ \E order \in AllOrders, executed, failed \in BOOLEAN :
       SyncRedisFromPostgres(order, executed, failed)
  \/ SyncNothing
  \/ WorkerProcess
  \/ \E offset \in Offsets, limit \in Limits : GetLeaderboardCall(offset, limit)
  \/ \E u \in Users : SearchUserCall(u)
  \/ ClockAdvance

Spec == Init /\ [][Next]_vars

(***************************************************************************)
(* Specification: two callers inside UpdateScore at once.  The adapter     *)
(* queues ZADD, HSET and INCR on client.Pipeline(), which sends them       *)
(* without MULTI/EXEC, so the server may serve another connection between  *)
(* any two of them.                                                        *)
(***************************************************************************)
\* callers whose pipeline is on its way or partly served
InFlight == {c \in Callers : pipe[c].pc /= "idle"}

\* the caller clamps, reads the clock, computes the composite and sends
ConcBegin(c, username, rating) ==
  /\ pipe[c].pc = "idle"
  /\ version + Cardinality(InFlight) < MaxWrites
  /\ pipe' = [pipe EXCEPT ![c] = [pc |-> "zadd", username |-> username, in |-> rating,
                                  rating |-> ClampRating(rating), timestamp |-> now]]
  /\ UNCHANGED <<accepted, workerVars, hubVars, restVars>>
  /\ UNCHANGED <<now, zset, hash, version, jobs, backpressure, processed, store, ret,
                 zwritten, lastIn, calls, serialOk>>

ConcZAdd(c) ==
  /\ pipe[c].pc = "zadd"
  /\ zset' = ZAdd(zset, pipe[c].username,
                  ComputeCompositeScore(pipe[c].rating, pipe[c].timestamp))
  /\ zwritten' = HSet(zwritten, pipe[c].username,
                      [rating |-> pipe[c].rating, ts |-> pipe[c].timestamp])
  /\ pipe' = [pipe EXCEPT ![c].pc = "hset"]
  /\ UNCHANGED <<accepted, workerVars, hubVars, restVars>>
  /\ UNCHANGED <<now, hash, version, jobs, backpressure, processed, store, ret,
                 lastIn, calls, serialOk>>

ConcHSet(c) ==
  /\ pipe[c].pc = "hset"
  /\ hash' = HSet(hash, pipe[c].username, pipe[c].rating)
  /\ pipe' = [pipe EXCEPT ![c].pc = "incr"]
  /\ UNCHANGED <<accepted, workerVars, hubVars, restVars>>
  /\ UNCHANGED <<now, zset, version, jobs, backpressure, processed, store, ret,
                 zwritten, lastIn, calls, serialOk>>

ConcIncr(c) ==
  /\ pipe[c].pc = "incr"
  /\ version' = Incr(version)
  /\ pipe' = [pipe EXCEPT ![c].pc = "exec"]
  /\ UNCHANGED <<accepted, workerVars, hubVars, restVars>>
  /\ UNCHANGED <<now, zset, hash, jobs, backpressure, processed, store, ret,
                 zwritten, lastIn, calls, serialOk>>

\* Exec returns nil to the service, which submits the task and returns
ConcReturn(c) ==
  /\ pipe[c].pc = "exec"
  /\ Submit([Username |-> pipe[c].username, Rating |-> pipe[c].rating])
  /\ ret' = [op |-> "UpdateScore", err |-> Nil]
  /\ lastIn' = HSet(lastIn, pipe[c].username, pipe[c].in)
  /\ calls' = calls + 1
  /\ pipe' = [pipe EXCEPT ![c] = [pc |-> "idle"]]
  /\ UNCHANGED <<workerVars, hubVars, restVars>>
  /\ UNCHANGED <<now, zset, hash, version, processed, store, zwritten, serialOk>>

NextConc ==
  \/ \E c \in Callers, u \in Users, r \in RatingInputs : ConcBegin(c, u, r)
  \/ \E c \in Callers : ConcZAdd(c)
  \/ \E c \in Callers : ConcHSet(c)
  \/ \E c \in Callers : ConcIncr(c)
  \/ \E c \in Callers : ConcReturn(c)
  \/ WorkerProcess
  \/ ClockAdvance

SpecConc == Init /\ [][NextConc]_vars

(***************************************************************************)
(* Specification: the worker pool, each worker goroutine on its own, and   *)
(* WorkerPool.Shutdown                                                     *)
(***************************************************************************)
\* a worker that returns as soon as the channel is closed
ExitOnClose(queue, isClosed, isCancelled) == isCancelled \/ isClosed

\* worker's select can return: ctx.Done() is ready, or the receive yields
\* !ok (channel closed and drained)
MayExit(queue, isClosed, isCancelled) == isCancelled \/ (isClosed /\ queue = <<>>)

\* LeaderboardService.UpdateScore with the pool as it is: a send on the
\* closed job channel panics, after the index has been written
PoolUpdateScore(username, rating) ==
  LET r == ClampRating(rating)
  IN  /\ Idle
      /\ version < MaxCalls
      /\ now' \in Later(now)
      /\ PipelineExecuted(username, r, now)
      /\ IF closed
           THEN /\ ret' = [op |-> "UpdateScore", err |-> "panic: send on closed channel"]
                /\ serialOk' = FALSE
                /\ UNCHANGED <<jobs, backpressure, accepted, lastIn, calls>>
           ELSE /\ Submit([Username |-> username, Rating |-> r])
                /\ ret' = [op |-> "UpdateScore", err |-> Nil]
                /\ lastIn' = HSet(lastIn, username, rating)
                /\ calls' = calls + 1
                /\ serialOk' = serialOk
      /\ UNCHANGED <<processed, store, pipe, workerVars, hubVars, restVars>>

\* worker: the select receives a task (possible whenever the channel holds
\* one, also when ctx.Done() is ready as well) and enters processTask
WorkerTake(w) ==
  /\ Alive
  /\ workers[w].st = "idle"
  /\ jobs /= <<>>
  /\ jobs' = Tail(jobs)
  /\ workers' = [workers EXCEPT ![w] = [st |-> "busy", task |-> Head(jobs), caught |-> FALSE]]
  /\ lateStart' = (lateStart \/ shutdown \in {"drained", "timedout"})
  /\ UNCHANGED <<now, zset, hash, version, backpressure, processed, store, ret, pipe,
                 zwritten, lastIn, calls, serialOk, accepted,
                 closed, cancelled, shutdown, failures, hubVars, restVars>>

\* an insert that leaves an existing row alone
InsertedIfAbsent(table, task) ==
  IF task.Username \in DOMAIN table THEN table ELSE HSet(table, task.Username, task.Rating)

\* processTask: wp.postgresRepo.UpsertUser(ctx, task.Username, task.Rating)
\* returned nil
Upserted(table, task) == HSet(table, task.Username, task.Rating)

\* a panic that unwinds the worker goroutine
AfterTaskUnrecovered(outcome) == IF outcome = "panic" THEN "exited" ELSE "idle"

\* where the worker stands when processTask has returned: the deferred
\* recover() stops a panic there, so the worker is back at its select
AfterTask(outcome) == "idle"

\* processTask returns: UpsertUser, run under its own 5-second context, has
\* succeeded, returned an error, or panicked (recovered)
WorkerFinish(w, outcome) ==
  /\ Alive
  /\ workers[w].st = "busy"
  /\ IF outcome = "ok"
       THEN /\ store' = Upserted(store, workers[w].task)
            /\ processed' = processed + 1
            /\ failures' = failures
       ELSE /\ store' = store
            /\ processed' = processed
            /\ failures' = failures + 1
  /\ workers' = [workers EXCEPT ![w] = [st |-> AfterTask(outcome)]]
  /\ UNCHANGED <<now, zset, hash, version, jobs, backpressure, ret, pipe,
                 zwritten, lastIn, calls, serialOk, accepted,
                 closed, cancelled, shutdown, lateStart, hubVars, restVars>>

\* worker: the select returns
WorkerExit(w) ==
  /\ Alive
  /\ workers[w].st = "idle"
  /\ MayExit(jobs, closed, cancelled)
  /\ workers' = [workers EXCEPT ![w] = [st |-> "exited"]]
  /\ UNCHANGED <<now, zset, hash, version, jobs, backpressure, processed, store, ret, pipe,
                 zwritten, lastIn, calls, serialOk, accepted,
                 closed, cancelled, shutdown, failures, lateStart, hubVars, restVars>>

\* Shutdown: close(wp.jobs), then wait for the workers or the timeout
ShutdownBegin ==
  /\ Alive
  /\ shutdown = "none"
  /\ closed' = TRUE
  /\ shutdown' = "waiting"
  /\ UNCHANGED <<now, zset, hash, version, jobs, backpressure, processed, store, ret, pipe,
                 zwritten, lastIn, calls, serialOk, accepted,
                 workers, cancelled, failures, lateStart, hubVars, restVars>>

\* Shutdown: wg.Wait() has returned; return nil
ShutdownDrained ==
  /\ Alive
  /\ shutdown = "waiting"
  /\ \A w \in DOMAIN workers : workers[w].st = "exited"
  /\ shutdown' = "drained"
  /\ UNCHANGED <<now, zset, hash, version, jobs, backpressure, processed, store, ret, pipe,
                 zwritten, lastIn, calls, serialOk, accepted,
                 workers, closed, cancelled, failures, lateStart, hubVars, restVars>>

\* Shutdown: the timeout fires; wp.cancel(), return the timeout error
ShutdownTimeout ==
  /\ Alive
  /\ shutdown = "waiting"
  /\ cancelled' = TRUE
  /\ shutdown' = "timedout"
  /\ workers' = [w \in DOMAIN workers |->
                   IF workers[w].st = "busy"
                     THEN [workers[w] EXCEPT !.caught = TRUE]
                     ELSE workers[w]]
  /\ UNCHANGED <<now, zset, hash, version, jobs, backpressure, processed, store, ret, pipe,
                 zwritten, lastIn, calls, serialOk, accepted,
                 closed, failures, lateStart, hubVars, restVars>>

NextPool ==
  \/ \E u \in Users, r \in RatingInputs : PoolUpdateScore(u, r)
  \/ \E w \in Workers : WorkerTake(w)
  \/ \E w \in Workers, outcome \in {"ok", "err", "panic"} : WorkerFinish(w, outcome)
  \/ \E w \in Workers : WorkerExit(w)
  \/ ShutdownBegin
  \/ ShutdownDrained
  \/ ShutdownTimeout

SpecPool == Init /\ [][NextPool]_vars

(***************************************************************************)
(* Specification: the WebSocket hub, its clients and their pumps           *)
(***************************************************************************)
\* a comparison that finds a change on every tick
AlwaysChanged(currentVersion, last) == TRUE

\* checkAndBroadcastVersion: currentVersion != h.lastVersion
VersionChanged(currentVersion, last) == currentVersion /= last

\* a send that makes room by discarding the oldest queued message
TrySendDropOldest(queue, message) ==
  IF Len(queue) < SendCap THEN Append(queue, message) ELSE Append(Tail(queue), message)

\* select { case client.send <- message: default: } on the buffered channel
TrySend(queue, message) ==
  IF Len(queue) < SendCap THEN Append(queue, message) ELSE queue

\* an initial send that never happens
InitialSendNever(queue, message) == queue

\* select { case client.send <- message: case <-time.After(2s): }: the send
\* goes through when the channel has room and is abandoned otherwise
InitialSend(queue, message) ==
  IF Len(queue) < SendCap THEN Append(queue, message) ELSE queue

\* an unregister that forgets the delete
KeepClient(set, client) == set

\* delete(h.clients, client)
DeleteClient(set, client) == set \ {client}

\* what of `after` was appended to `before`
Enqueued(before, after) == SubSeq(after, Len(before) + 1, Len(after))

\* ServeWS: the connection's goroutine blocks on hub.register <- client
Connect(c) ==
  /\ conn[c] = "none"
  /\ conn' = [conn EXCEPT ![c] = "pending"]
  /\ UNCHANGED <<now, zset, hash, version, jobs, backpressure, processed, store, ret, pipe,
                 zwritten, lastIn, calls, serialOk, accepted, workerVars, restVars, sock, hubDone,
                 clients, lastVersion, send, sendClosed, pump, got, regVersion, closes>>

\* Hub.Run, case client := <-h.register, with sendInitialVersion; the
\* connection's goroutine goes on to start writePump and enter readPump
HubRegister(c, readOk) ==
  LET queue == IF readOk THEN InitialSend(send[c], version) ELSE send[c]
  IN  /\ ~hubDone
      /\ conn[c] = "pending"
      /\ clients' = clients \cup {c}
      /\ lastVersion' = IF readOk /\ lastVersion = 0 THEN version ELSE lastVersion
      /\ send' = [send EXCEPT ![c] = queue]
      /\ got' = [got EXCEPT ![c] = got[c] \o Enqueued(send[c], queue)]
      /\ regVersion' = [regVersion EXCEPT ![c] = [ok |-> readOk, at |-> version]]
      /\ conn' = [conn EXCEPT ![c] = "reading"]
      /\ pump' = [pump EXCEPT ![c] = "running"]
      /\ UNCHANGED <<now, zset, hash, version, jobs, backpressure, processed, store, ret,
                     pipe, zwritten, lastIn, calls, serialOk, accepted, workerVars, restVars, sock, hubDone,
                     sendClosed, closes>>

\* readPump: ReadMessage fails; the deferred hub.unregister <- c blocks
ReadError(c) ==
  /\ conn[c] = "reading"
  /\ conn' = [conn EXCEPT ![c] = "leaving"]
  /\ UNCHANGED <<now, zset, hash, version, jobs, backpressure, processed, store, ret, pipe,
                 zwritten, lastIn, calls, serialOk, accepted, workerVars, restVars, sock, hubDone,
                 clients, lastVersion, send, sendClosed, pump, got, regVersion, closes>>

\* Hub.Run, case client := <-h.unregister; readPump then closes the
\* connection and returns
HubUnregister(c) ==
  /\ ~hubDone
  /\ conn[c] = "leaving"
  /\ IF c \in clients
       THEN /\ clients' = DeleteClient(clients, c)
            /\ sendClosed' = [sendClosed EXCEPT ![c] = TRUE]
            /\ closes' = [closes EXCEPT ![c] = closes[c] + 1]
       ELSE UNCHANGED <<clients, sendClosed, closes>>
  /\ conn' = [conn EXCEPT ![c] = "left"]
  /\ UNCHANGED <<now, zset, hash, version, jobs, backpressure, processed, store, ret, pipe,
                 zwritten, lastIn, calls, serialOk, accepted, workerVars, restVars, sock, hubDone,
                 lastVersion, send, pump, got, regVersion>>

\* a broadcast to every client the hub has ever seen
EveryClient(set) == ClientIds

\* checkAndBroadcastVersion: for client := range h.clients
Receivers(set) == set

\* Hub.Run, case <-versionTicker.C: checkAndBroadcastVersion
HubTick(readOk) ==
  LET broadcast == readOk /\ VersionChanged(version, lastVersion)
      queue(c) == IF broadcast /\ c \in Receivers(clients) THEN TrySend(send[c], version)
                  ELSE send[c]
  IN  /\ ~hubDone
      /\ lastVersion' = IF broadcast THEN version ELSE lastVersion
      /\ send' = [c \in ClientIds |-> queue(c)]
      /\ got' = [c \in ClientIds |-> got[c] \o Enqueued(send[c], queue(c))]
      /\ UNCHANGED <<now, zset, hash, version, jobs, backpressure, processed, store, ret,
                     pipe, zwritten, lastIn, calls, serialOk, accepted, workerVars, restVars, sock, hubDone,
                     clients, sendClosed, conn, pump, regVersion, closes>>

\* a frame that carries the received message only and discards the rest
FrameFirstOnly(message, queue) == <<message>>

\* writePump: w.Write(message), then n := len(c.send) and n times a line
\* feed and w.Write(<-c.send): the frame carries the message received and
\* the n messages queued when len(c.send) is read
Frame(message, queue) == <<message>> \o queue

\* writePump: case message, ok := <-c.send with ok true
WritePumpReceive(c) ==
  /\ pump[c] = "running"
  /\ sock[c].held = <<>>
  /\ send[c] /= <<>>
  /\ send' = [send EXCEPT ![c] = Tail(send[c])]
  /\ sock' = [sock EXCEPT ![c].held = <<Head(send[c])>>]
  /\ UNCHANGED <<now, zset, hash, version, jobs, backpressure, processed, store, ret, pipe,
                 zwritten, lastIn, calls, serialOk, accepted, workerVars, restVars, hubDone,
                 clients, lastVersion, sendClosed, conn, pump, got, regVersion, closes>>

\* writePump: NextWriter, the message, what is queued by now, w.Close(): one
\* text frame
WritePumpWrite(c) ==
  /\ pump[c] = "running"
  /\ sock[c].held /= <<>>
  /\ send' = [send EXCEPT ![c] = <<>>]
  /\ sock' = [sock EXCEPT ![c].wire =
                              Append(@, [type |-> "text",
                                         data |-> Frame(Head(sock[c].held), send[c])]),
                          ![c].held = <<>>]
  /\ UNCHANGED <<now, zset, hash, version, jobs, backpressure, processed, store, ret, pipe,
                 zwritten, lastIn, calls, serialOk, accepted, workerVars, restVars, hubDone,
                 clients, lastVersion, sendClosed, conn, pump, got, regVersion, closes>>

\* writePump returns: the receive yields !ok (channel closed and drained) and
\* the close frame is written, or writing to the socket failed: NextWriter or
\* w.Close() for the received message, which is lost, or the WriteMessage of
\* the close frame, whose error is ignored
WritePumpExit(c, writeFailed) ==
  /\ pump[c] = "running"
  /\ IF writeFailed
       THEN /\ sock[c].held /= <<>> \/ (send[c] = <<>> /\ sendClosed[c])
            /\ sock' = [sock EXCEPT ![c].held = <<>>, ![c].broken = TRUE]
       ELSE /\ sock[c].held = <<>>
            /\ send[c] = <<>>
            /\ sendClosed[c]
            /\ sock' = [sock EXCEPT ![c].wire = Append(@, [type |-> "close", data |-> <<>>])]
  /\ pump' = [pump EXCEPT ![c] = "exited"]
  /\ UNCHANGED <<now, zset, hash, version, jobs, backpressure, processed, store, ret, pipe,
                 zwritten, lastIn, calls, serialOk, accepted, workerVars, restVars, hubDone,
                 clients, lastVersion, send, sendClosed, conn, got, regVersion, closes>>

\* how far a client is through Pending (0), Registered (1), Closing (2),
\* Closed (3): registered once the hub has added it, closing from the read
\* error on, closed when it is out of the set, its channel closed, readPump
\* returned and writePump exited
LifeRank(set, position, writer, c) ==
  IF position[c] \in {"none", "pending"} THEN 0
  ELSE IF position[c] = "reading" THEN 1
  ELSE IF position[c] = "left" /\ c \notin set /\ writer[c] = "exited" THEN 3
  ELSE 2

NextHub ==
  \/ UpdateScoreOk("a", 500)
  \/ \E c \in ClientIds : Connect(c)
  \/ \E c \in ClientIds, readOk \in BOOLEAN : HubRegister(c, readOk)
  \/ \E c \in ClientIds : ReadError(c)
  \/ \E c \in ClientIds : HubUnregister(c)
  \/ \E readOk \in BOOLEAN : HubTick(readOk)
  \/ \E c \in ClientIds : WritePumpReceive(c)
  \/ \E c \in ClientIds : WritePumpWrite(c)
  \/ \E c \in ClientIds, writeFailed \in BOOLEAN : WritePumpExit(c, writeFailed)

SpecHub == Init /\ [][NextHub]_vars

(***************************************************************************)
(* Properties                                                              *)
(***************************************************************************)
\* C1: after a sequence of UpdateScore calls that each returned nil, Score(u)
\* is the last rating passed for u brought into [100, 5000], the index holds
\* exactly the distinct usernames written, and the version is at least the
\* number of calls.
C1_LastWriteWins ==
  serialOk =>
    /\ \A u \in DOMAIN lastIn :
         GetUserScore(u) =
           [err |-> Nil,
            score |-> IF lastIn[u] < 100 THEN 100
                      ELSE IF lastIn[u] > 5000 THEN 5000 ELSE lastIn[u]]
    /\ GetTotalUsers = Cardinality(DOMAIN lastIn)
    /\ GetLeaderboardVersion >= calls

\* two calls for one user, the last one with a rating above the range
C1_Witness ==
  /\ serialOk
  /\ calls = 2
  /\ Cardinality(DOMAIN lastIn) = 1
  /\ \E u \in DOMAIN lastIn : lastIn[u] = 9999 /\ GetUserScore(u).score = 5000

\* C2: every page GetLeaderboard returns is rating-descending and
\* rank-ascending: of two adjacent entries the first has the rating at least
\* as high, equal ratings share the rank, and otherwise the second rank is
\* greater -- whenever the users were written.
C2_PageSorted ==
  ret.op = "GetLeaderboard" =>
    \A i \in 1..(Len(ret.Data) - 1) :
      LET a == ret.Data[i]
          b == ret.Data[i + 1]
      IN  /\ a.Rating >= b.Rating
          /\ (a.Rating = b.Rating => a.Rank = b.Rank)
          /\ (a.Rating /= b.Rating => b.Rank > a.Rank)

\* C3: of two index entries written with the same rating, the one with the
\* earlier timestamp has the strictly greater composite score and is listed
\* first by GetTopUsers.
C3_EarlierWins ==
  \A u, v \in DOMAIN zwritten :
    (zwritten[u].rating = zwritten[v].rating /\ TsLess(zwritten[u].ts, zwritten[v].ts)) =>
      /\ Greater(zset[u], zset[v])
      /\ LET top == GetTopUsers(0, ZCard(zset))
         IN  \E i, j \in DOMAIN top : i < j /\ top[i].Member = u /\ top[j].Member = v

\* C4: for every index entry, the term 1 - t/10^10 of its write lies strictly
\* between 0 and 1, and the integer part of the composite score, which
\* GetTopUsers returns as the score, is the rating that was written.
C4_IntegerPartIsRating ==
  /\ \A u \in DOMAIN zwritten :
       LET term == ComputeCompositeScore(0, zwritten[u].ts)
       IN  /\ Greater(term, [whole |-> 0, below |-> 0])
           /\ Greater([whole |-> 1, below |-> 0], term)
  /\ LET top == GetTopUsers(0, ZCard(zset))
     IN  \A i \in DOMAIN top : top[i].Score = zwritten[top[i].Member].rating

\* C5: on every page the first rank is offset + 1, and every later entry has
\* the rank of its predecessor when their ratings are equal and the rank
\* offset + (its position on the page) otherwise.
C5_TieAwareRanks ==
  ret.op = "GetLeaderboard" =>
    /\ (Len(ret.Data) >= 1 => ret.Data[1].Rank = ret.Offset + 1)
    /\ \A i \in 2..Len(ret.Data) :
         ret.Data[i].Rank =
           IF ret.Data[i].Rating = ret.Data[i - 1].Rating
             THEN ret.Data[i - 1].Rank
             ELSE ret.Offset + i

\* a page with a tie group of two followed by a different rating: the rank
\* jumps by two
C5_Witness ==
  /\ ret.op = "GetLeaderboard"
  /\ Len(ret.Data) = 3
  /\ ret.Data[1].Rating = ret.Data[2].Rating
  /\ ret.Data[3].Rating /= ret.Data[2].Rating
  /\ ret.Data[2].Rank = ret.Data[1].Rank
  /\ ret.Data[3].Rank = ret.Data[1].Rank + 2

\* C6: the rank of every entry on every page is one plus the number of users
\* in the whole index whose rating is strictly greater.
C6_RankCountsWholeIndex ==
  ret.op = "GetLeaderboard" =>
    \A i \in DOMAIN ret.Data :
      ret.Data[i].Rank =
        1 + Cardinality({v \in DOMAIN zwritten :
                           zwritten[v].rating > ret.Data[i].Rating})

\* C7: for a user in the index, the global rank SearchUser reports is one
\* plus the number of members whose composite score is strictly greater than
\* the user's.
C7_RankCountsStrictlyGreater ==
  (ret.op = "SearchUser" /\ ret.err = Nil) =>
    ret.GlobalRank =
      1 + Cardinality({v \in DOMAIN zset : Greater(zset[v], zset[ret.Username])})

\* C8: in every state, also between the commands of concurrent UpdateScore
\* calls, every member of the sorted set has a metadata entry holding the
\* rating its index entry was computed from.
C8_MetadataMatchesIndex ==
  \A u \in DOMAIN zset : u \in DOMAIN hash /\ hash[u] = zwritten[u].rating

C10_ErrorChangesNothing ==
  [][(\E u \in Users, r \in RatingInputs, executed \in BOOLEAN :
        UpdateScoreErr(u, r, executed)) =>
       /\ zset' = zset
       /\ hash' = hash
       /\ version' = version
       /\ jobs' = jobs]_vars

\* C11: in every UpdateScore that returns nil, Submit either appends the
\* call's task to a queue with slack, or, the queue being full, leaves the
\* queue as it is and raises the backpressure counter by exactly one; either
\* way the call returns nil and its index write and version increment stand.
C11_SubmitNeverBlocks ==
  [][calls' = calls + 1 =>
       /\ ret' = [op |-> "UpdateScore", err |-> Nil]
       /\ version' = version + 1
       /\ \E u \in DOMAIN hash' :
            LET task == [Username |-> u, Rating |-> hash'[u]]
            IN  /\ zwritten'[u] = [rating |-> hash'[u], ts |-> now]
                /\ u \in DOMAIN zset'
                /\ IF Len(jobs) < QueueSize
                     THEN jobs' = Append(jobs, task) /\ backpressure' = backpressure
                     ELSE jobs' = jobs /\ backpressure' = backpressure + 1]_vars

\* the second of two calls met a full queue: one backpressure event, both
\* writes in the index
C11_Witness ==
  /\ backpressure = 1
  /\ Len(jobs) = QueueSize
  /\ calls = 2
  /\ version = 2
  /\ ret = [op |-> "UpdateScore", err |-> Nil]
  /\ ZCard(zset) = 2

\* C12: while no worker has come back from its upsert, at most WorkerCount +
\* QueueSize tasks have been accepted, every call made before the channel is
\* closed has returned nil, and the backpressure counter is the number of
\* calls less the accepted tasks, so at least calls - WorkerCount - QueueSize.
C12_SaturatedPoolDrops ==
  (processed = 0 /\ failures = 0) =>
    /\ accepted <= WorkerCount + QueueSize
    /\ backpressure = calls - accepted
    /\ backpressure >= calls - WorkerCount - QueueSize
    /\ (~closed /\ ret.op = "UpdateScore" => ret.err = Nil)

\* three calls against one blocked worker and a queue of one: one dropped
C12_Witness ==
  /\ processed = 0 /\ failures = 0
  /\ calls = WorkerCount + QueueSize + 1
  /\ \A w \in Workers : workers[w].st = "busy"
  /\ Len(jobs) = QueueSize
  /\ backpressure = 1
  /\ ret = [op |-> "UpdateScore", err |-> Nil]

\* C18: once Shutdown has returned nil, every accepted task has been counted
\* exactly once as processed or failed, the queue is empty and every worker
\* has returned.
C18_DrainedMeansDone ==
  shutdown = "drained" =>
    /\ processed + failures = accepted
    /\ jobs = <<>>
    /\ \A w \in Workers : workers[w].st = "exited"

\* a drained pool that executed a task successfully and one that failed
C18_Witness ==
  /\ shutdown = "drained"
  /\ processed >= 1
  /\ failures >= 1
  /\ accepted = 2

\* C19: after Shutdown has returned, with nil or with the timeout error, no
\* worker receives another task.
C19_NoStartAfterShutdown == lateStart = FALSE

\* C20: a store upsert that is in flight when the shutdown timeout cancels
\* the pool is interrupted: it does not go on to write the store.
C20_CancelInterruptsUpsert ==
  [][\A w \in Workers :
       (workers[w].st = "busy" /\ workers[w].caught /\ workers'[w].st /= "busy") =>
         (store' = store /\ processed' = processed)]_vars

\* C13: a step of the hub that enqueues without registering anyone is a tick
\* that read a version greater than the last observed one; it sets the last
\* observed version to it and appends exactly one message carrying it to
\* every subscriber with slack and nothing to anyone else.
C13_TickBroadcastsOnce ==
  [][(clients' = clients /\ (got' /= got \/ lastVersion' /= lastVersion)) =>
       /\ version > lastVersion
       /\ lastVersion' = version
       /\ \A c \in ClientIds :
            IF c \in clients /\ Len(send[c]) < SendCap
              THEN got'[c] = Append(got[c], version) /\ send'[c] = Append(send[c], version)
              ELSE got'[c] = got[c] /\ send'[c] = send[c]]_vars

\* two writes between registration and the next tick: one message
C13_Witness ==
  /\ lastVersion = 2
  /\ \E c \in clients : got[c] = <<0, 2>>

\* C14: the versions enqueued for a subscriber are strictly increasing.
C14_VersionsIncrease ==
  \A c \in ClientIds : \A i \in 1..(Len(got[c]) - 1) : got[c][i] < got[c][i + 1]

\* C15: on a broadcast, a subscriber with a full queue keeps its queue as it
\* is, stays in the set with its channel open, and every subscriber with
\* slack gets the message.
C15_FullQueueSkipped ==
  [][(clients' = clients /\ lastVersion' /= lastVersion) =>
       \A c \in clients :
         /\ c \in clients'
         /\ sendClosed'[c] = sendClosed[c]
         /\ closes'[c] = closes[c]
         /\ conn'[c] = conn[c]
         /\ IF Len(send[c]) >= SendCap
              THEN send'[c] = send[c]
              ELSE send'[c] = Append(send[c], lastVersion')]_vars

\* after a broadcast one subscriber, its queue full, has not got the
\* version, and another has
C15_Witness ==
  /\ lastVersion >= 1
  /\ \E c, d \in clients :
       /\ Len(send[c]) = SendCap
       /\ ~sendClosed[c]
       /\ \A i \in DOMAIN got[c] : got[c][i] < lastVersion
       /\ got[d] /= <<>>
       /\ got[d][Len(got[d])] = lastVersion
       /\ regVersion[d].at < lastVersion

C17_LifecycleForward ==
  [][\A c \in ClientIds :
       /\ LifeRank(clients', conn', pump', c) >= LifeRank(clients, conn, pump, c)
       /\ (c \in clients /\ c \notin clients') =>
            (sendClosed'[c] /\ ~sendClosed[c] /\ closes'[c] = 1)
       /\ (conn[c] = "leaving" /\ conn'[c] = "left") => (c \notin clients' /\ sendClosed'[c])
       /\ closes'[c] <= 1
       /\ (sendClosed[c] => sendClosed'[c])
       /\ (c \notin clients /\ conn[c] \notin {"none", "pending"}) => c \notin clients']_vars

\* a client that went all the way: out of the set, channel closed once,
\* both pumps gone
C17_Witness ==
  \E c \in ClientIds :
    /\ LifeRank(clients, conn, pump, c) = 3
    /\ sendClosed[c]
    /\ closes[c] = 1
    /\ got[c] /= <<>>


(***************************************************************************)
(* Specification: the HTTP handlers of the read path, with index commands  *)
(* that may fail in transport                                              *)
(***************************************************************************)
\* the integers a caller passes to LeaderboardService.GetLeaderboard
WideOffsets == {-1, 1}
WideLimits == {0, 1, 100, 101}

\* a query parameter: left out, not a number, or a number
Absent == [kind |-> "absent", n |-> 0]
Junk == [kind |-> "junk", n |-> 0]
Number(i) == [kind |-> "int", n |-> i]
OffsetQueries == {Junk, Number(-1), Number(1)}
LimitQueries == {Absent, Junk, Number(0), Number(1), Number(100), Number(101)}

\* the index command of a request that fails in transport, if any
LeaderboardFaults == {"none", "ZREVRANGE", "ZCARD", "HMGET"}
SearchFaults == {"none", "ZSCORE", "ZCOUNT", "HGET"}

TransportError == "i/o timeout"

\* GetUserRank when ZSCORE or ZCOUNT may fail in transport; ZCOUNT is sent
\* only for a member ZSCORE has found
GetUserRankUnder(fault, username) ==
  IF fault = "ZSCORE" \/ (fault = "ZCOUNT" /\ username \in DOMAIN zset)
    THEN [err |-> TransportError, rank |-> 0]
    ELSE GetUserRank(username)

\* GetUserScore when HGET may fail in transport
GetUserScoreUnder(fault, username) ==
  IF fault = "HGET"
    THEN [err |-> TransportError, score |-> 0]
    ELSE GetUserScore(username)

\* a SearchUser that answers with the rank alone
SearchUserRankOnly(fault, username) ==
  LET rank == GetUserRankUnder(fault, username)
      rating == GetUserScoreUnder(fault, username)
  IN  IF rank.err /= Nil
        THEN [err |-> rank.err, failed |-> rank.err = TransportError]
        ELSE [err |-> Nil, failed |-> rating.err = TransportError,
              GlobalRank |-> rank.rank, Username |-> username, Rating |-> rating.score]

\* LeaderboardService.SearchUser; failed: a command of the call failed in
\* transport
SearchUserUnder(fault, username) ==
  LET rank == GetUserRankUnder(fault, username)
      rating == GetUserScoreUnder(fault, username)
  IN  IF rank.err /= Nil
        THEN [err |-> rank.err, failed |-> rank.err = TransportError]
      ELSE IF rating.err /= Nil
        THEN [err |-> rating.err, failed |-> rating.err = TransportError]
      ELSE [err |-> Nil, failed |-> FALSE,
            GlobalRank |-> rank.rank, Username |-> username, Rating |-> rating.score]

\* LeaderboardService.GetLeaderboard; applyTieAwareRanking sends HMGET only
\* for a non-empty page and falls back to no entries when it fails
GetLeaderboardUnder(fault, offset, limit) ==
  LET o == NormalOffset(offset)
      l == NormalLimit(limit)
      users == GetTopUsers(o, l)
  IN  IF fault = "ZREVRANGE"
        THEN [err |-> "failed to get top users", failed |-> TRUE]
      ELSE IF fault = "ZCARD"
        THEN [err |-> "failed to get total users", failed |-> TRUE]
      ELSE [err |-> Nil, failed |-> fault = "HMGET" /\ Len(users) > 0,
            Data |-> IF fault = "HMGET" THEN <<>> ELSE applyTieAwareRanking(users, o),
            Offset |-> o, Limit |-> l, Total |-> GetTotalUsers]

\* strconv.Atoi(c.Query(name, fallback))
Atoi(query, fallback) ==
  IF query.kind = "absent" THEN [err |-> Nil, n |-> fallback]
  ELSE IF query.kind = "junk" THEN [err |-> "invalid syntax", n |-> 0]
  ELSE [err |-> Nil, n |-> query.n]

\* a handler that passes the limit on as parsed
HandlerLimitUncapped(query) ==
  LET parsed == Atoi(query, DefaultLimit)
  IN  IF parsed.err /= Nil \/ parsed.n <= 0 THEN DefaultLimit ELSE parsed.n

\* LeaderboardHandler.GetLeaderboard: the limit it passes to the service
HandlerLimit(query) ==
  LET parsed == Atoi(query, DefaultLimit)
      limit == IF parsed.err /= Nil \/ parsed.n <= 0 THEN DefaultLimit ELSE parsed.n
  IN  IF limit > MaxLimit THEN MaxLimit ELSE limit

\* LeaderboardHandler.GetLeaderboard: the offset it passes to the service
HandlerOffset(query) ==
  LET parsed == Atoi(query, 0)
  IN  IF parsed.err /= Nil \/ parsed.n < 0 THEN 0 ELSE parsed.n

StatusOK == 200
StatusNotFound == 404
StatusInternalServerError == 500

\* LeaderboardHandler.GetLeaderboard, GET /api/v1/leaderboard
HandlerGetLeaderboard(offsetQuery, limitQuery, fault) ==
  LET leaderboard == GetLeaderboardUnder(fault, HandlerOffset(offsetQuery),
                                         HandlerLimit(limitQuery))
  IN  /\ ret' = [op |-> "GET /api/v1/leaderboard", err |-> leaderboard.err,
                 query |-> <<offsetQuery, limitQuery>>, failed |-> leaderboard.failed,
                 status |-> IF leaderboard.err /= Nil
                              THEN StatusInternalServerError ELSE StatusOK,
                 body |-> leaderboard]
      /\ UNCHANGED <<now, zset, hash, version, jobs, backpressure, processed, store, pipe,
                     zwritten, lastIn, calls, serialOk, accepted, workerVars, hubVars,
                     restVars>>

\* LeaderboardHandler.SearchUser, GET /api/v1/search/:username (the router
\* matches only a non-empty username)
HandlerSearchUser(username, fault) ==
  LET result == SearchUserUnder(fault, username)
  IN  /\ ret' = [op |-> "GET /api/v1/search", err |-> result.err,
                 query |-> username, failed |-> result.failed,
                 status |-> IF result.err /= Nil THEN StatusNotFound ELSE StatusOK,
                 body |-> result]
      /\ UNCHANGED <<now, zset, hash, version, jobs, backpressure, processed, store, pipe,
                     zwritten, lastIn, calls, serialOk, accepted, workerVars, hubVars,
                     restVars>>

NextHttp ==
  \/ \E u \in Users : UpdateScoreOk(u, 500)
  \/ \E offsetQuery \in OffsetQueries, limitQuery \in LimitQueries,
        fault \in LeaderboardFaults :
       HandlerGetLeaderboard(offsetQuery, limitQuery, fault)
  \/ \E u \in Users, fault \in SearchFaults : HandlerSearchUser(u, fault)
  \/ \E offset \in WideOffsets, limit \in WideLimits : GetLeaderboardCall(offset, limit)

SpecHttp == Init /\ [][NextHttp]_vars


(***************************************************************************)
(* Properties of the HTTP read path                                        *)
(***************************************************************************)
\* C23: a request during which an index command failed in transport is
\* answered with HTTP 500.
C23_TransportFailureIs500 ==
  (ret.op \in {"GET /api/v1/leaderboard", "GET /api/v1/search"} /\ ret.failed)
    => ret.status = StatusInternalServerError

\* C24: a SearchUser request changes neither index, metadata nor version; it
\* succeeds only if no command failed and both the rank and the score of the
\* username were found, and then answers with them; for a username in neither
\* index nor metadata it answers with an error and no result, the error being
\* user-not-found whenever the index answered.
C24_SearchNeedsRankAndScore ==
  [][ret'.op = "GET /api/v1/search" =>
       LET result == ret'.body
           username == ret'.query
       IN  /\ UNCHANGED <<zset, hash, version>>
           /\ result.err = Nil =>
                /\ ~result.failed
                /\ GetUserRank(username).err = Nil
                /\ GetUserScore(username).err = Nil
                /\ result.GlobalRank = GetUserRank(username).rank
                /\ result.Username = username
                /\ result.Rating = GetUserScore(username).score
           /\ (username \notin DOMAIN zset /\ username \notin DOMAIN hash) =>
                /\ result.err /= Nil
                /\ DOMAIN result = {"err", "failed"}
                /\ ~result.failed => result.err = NotFound]_vars

\* a search for a user never written, in an index that holds other users
C24_Witness ==
  /\ ret.op = "GET /api/v1/search"
  /\ ret.query \notin DOMAIN zset \cup DOMAIN hash
  /\ zset /= <<>>
  /\ ret.body.err = NotFound
  /\ ret.status = StatusNotFound

\* C25: GetLeaderboard, for every integer offset and limit, answers with
\* offset max(offset, 0), with the limit as given when it is within [1, 100],
\* 50 when it is <= 0 and 100 when it is above 100, and with at most limit
\* entries.
C25_LimitCappedAt100 ==
  ret.op = "GetLeaderboard" =>
    LET offset == ret.args[1]
        limit == ret.args[2]
    IN  /\ ret.Offset = (IF offset < 0 THEN 0 ELSE offset)
        /\ ret.Limit = (IF limit <= 0 THEN 50 ELSE IF limit > 100 THEN 100 ELSE limit)
        /\ Len(ret.Data) <= ret.Limit

\* C25 (amended): the service answers with offset max(offset, 0), with the
\* limit as given when it is within [1, 100] and 50 otherwise (<= 0 or above
\* 100); the HTTP handler, which falls back to 0 and 50 for a missing or
\* malformed parameter, caps a limit above 100 at 100 before it calls the
\* service, so that the response carries limit 100; every response echoes the
\* normalized offset and limit and carries at most limit entries.
C25_LimitNormalised ==
  /\ ret.op = "GetLeaderboard" =>
       LET offset == ret.args[1]
           limit == ret.args[2]
       IN  /\ ret.Offset = (IF offset < 0 THEN 0 ELSE offset)
           /\ ret.Limit = (IF limit >= 1 /\ limit <= 100 THEN limit ELSE 50)
           /\ Len(ret.Data) <= ret.Limit
  /\ (ret.op = "GET /api/v1/leaderboard" /\ ret.status = StatusOK) =>
       LET offset == ret.query[1]
           limit == ret.query[2]
       IN  /\ ret.body.Offset = (IF offset.kind = "int" /\ offset.n >= 0 THEN offset.n ELSE 0)
           /\ ret.body.Limit = (IF limit.kind /= "int" \/ limit.n <= 0 THEN 50
                                ELSE IF limit.n > 100 THEN 100 ELSE limit.n)
           /\ Len(ret.body.Data) <= ret.body.Limit

\* a request for limit=101 answered with limit 100, and a page cut at its limit
C25_Witness ==
  /\ ret.op = "GET /api/v1/leaderboard"
  /\ ret.query = <<Junk, Number(101)>>
  /\ ret.status = StatusOK
  /\ ret.body.Limit = 100
  /\ Len(ret.body.Data) = 2


(***************************************************************************)
(* Specification: SyncRedisFromPostgres called on a running system, whose  *)
(* index may hold users the store does not hold yet                        *)
(***************************************************************************)
SeedSync(order, executed, failed) ==
  /\ version < MaxCalls
  /\ BulkSync(order, executed, failed)

NextSeed ==
  \/ \E u \in Users, r \in RatingInputs : PoolUpdateScore(u, r)
  \/ WorkerProcess
  \/ \E order \in AllOrders, executed, failed \in BOOLEAN : SeedSync(order, executed, failed)
  \/ SyncNothing

SpecSeed == Init /\ [][NextSeed]_vars

\* C26: a SyncRedisFromPostgres over a non-empty store that returns nil leaves
\* every store user in the index with its store rating as score, raises the
\* version by exactly 1, has stamped the entries of the batch with distinct
\* consecutive timestamps from the time of the call on, and leaves an index
\* whose full top range lists every store user, in rating-descending order.
C26_SeedListsStoreByRating ==
  [][(ret'.op = "SyncRedisFromPostgres" /\ ret'.err = Nil /\ zwritten' /= zwritten
        /\ DOMAIN store /= {}) =>
       LET n == Cardinality(DOMAIN store)
           page == GetTopUsers(0, ZCard(zset))'
       IN  /\ \A u \in DOMAIN store :
                /\ u \in DOMAIN zset'
                /\ GetUserScore(u)' = [err |-> Nil, score |-> store[u]]
           /\ version' = version + 1
           /\ {zwritten'[u].ts : u \in DOMAIN store}
                = {[period |-> now.period, ns |-> now.ns + i] : i \in 0..(n - 1)}
           /\ DOMAIN store \subseteq {page[i].Member : i \in 1..Len(page)}
           /\ \A i, j \in 1..Len(page) :
                i < j => hash'[page[i].Member] >= hash'[page[j].Member]]_vars


(***************************************************************************)
(* Specification: the users table under PostgresRepository.UpsertUser      *)
(***************************************************************************)
\* the model follows the table through the sequence values up to MaxId
MaxId == 4

\* INSERT without an ON CONFLICT clause, on a table without the unique index
InsertAlways(table, row) == table \cup {row}

\* INSERT ... ON CONFLICT (username) DO UPDATE SET rating, updated_at: the row
\* that holds the username, if any, takes the rating and the updated_at of
\* the row proposed for insertion
OnConflictUpdate(table, row) ==
  IF \E x \in table : x.Username = row.Username
    THEN {IF x.Username = row.Username
            THEN [x EXCEPT !.Rating = row.Rating, !.UpdatedAt = row.UpdatedAt]
            ELSE x : x \in table}
    ELSE table \cup {row}

\* PostgresRepository.UpsertUser: gorm stamps CreatedAt and UpdatedAt with the
\* time of the call; the sequence behind id advances also when the insert
\* ends in the update. outcome: the statement committed and nil was returned
\* ("ok"), it did not run ("err"), or it committed and the reply was lost
\* ("lost")
UpsertUser(username, rating, outcome) ==
  LET user == [ID |-> nextId, Username |-> username, Rating |-> rating,
               CreatedAt |-> now, UpdatedAt |-> now]
  IN  /\ nextId <= MaxId
      /\ IF outcome = "err"
           THEN UNCHANGED <<rows, nextId, store>>
           ELSE /\ rows' = OnConflictUpdate(rows, user)
                /\ nextId' = nextId + 1
                /\ store' = HSet(store, username, rating)
      /\ ret' = [op |-> "UpsertUser", args |-> <<username, rating>>,
                 err |-> IF outcome = "ok" THEN Nil ELSE "context deadline exceeded",
                 before |-> {x \in rows : x.Username = username}]
      /\ UNCHANGED <<now, zset, hash, version, jobs, backpressure, processed, pipe,
                     zwritten, lastIn, calls, serialOk, accepted, workerVars, hubVars,
                     simVars, mainVars>>

\* the ratings of the tasks a worker upserts
TaskRatings == {MinRating, MaxRating}

NextStore ==
  \/ \E u \in Users, r \in TaskRatings, outcome \in {"ok", "err", "lost"} :
       UpsertUser(u, r, outcome)
  \/ ClockAdvance

SpecStore == Init /\ [][NextStore]_vars

\* C27: an UpsertUser(u, r) that returns nil leaves exactly one row for u,
\* holding rating r, and the rows of the other users as they were; when the
\* row of u already held rating r (the upsert is a repetition) the table is
\* what it was, except that the row's updated_at is the time of the call,
\* which is not earlier than the one it replaces.
C27_UpsertIdempotent ==
  [][(ret'.op = "UpsertUser" /\ ret'.err = Nil /\ nextId' /= nextId) =>
       LET u == ret'.args[1]
           r == ret'.args[2]
           mine(table) == {x \in table : x.Username = u}
       IN  /\ Cardinality(mine(rows')) = 1
           /\ \A x \in mine(rows') : x.Rating = r
           /\ rows' \ mine(rows') = rows \ mine(rows)
           /\ \A x \in mine(rows) :
                x.Rating = r =>
                  /\ mine(rows') = {[x EXCEPT !.UpdatedAt = now]}
                  /\ ~TsLess(now, x.UpdatedAt)
           /\ \A x, y \in rows' : x.Username = y.Username => x = y]_vars

\* the same upsert applied a second time, later than the first
C27_Witness ==
  /\ ret.op = "UpsertUser"
  /\ ret.err = Nil
  /\ \E x \in ret.before, y \in rows :
       /\ x.Rating = ret.args[2]
       /\ y.Username = x.Username
       /\ y.ID = x.ID
       /\ y.Rating = x.Rating
       /\ y.CreatedAt = x.CreatedAt
       /\ TsLess(x.UpdatedAt, y.UpdatedAt)
       /\ Cardinality(rows) = 2


(***************************************************************************)
(* Specification: the worker pool with a store whose every UpsertUser      *)
(* panics                                                                  *)
(***************************************************************************)
NextPanic ==
  \/ \E u \in Users, r \in RatingInputs : PoolUpdateScore(u, r)
  \/ \E w \in Workers : WorkerTake(w)
  \/ \E w \in Workers : WorkerFinish(w, "panic")
  \/ \E w \in Workers : WorkerExit(w)
  \/ ShutdownBegin
  \/ ShutdownDrained
  \/ ShutdownTimeout

SpecPanic == Init /\ [][NextPanic]_vars

\* C22: a panic in a task is caught within the task: the failed counter goes
\* up by exactly one, the processed counter stays, and the worker is back at
\* its loop, where it receives the next task; until the pool is shut down
\* no worker has exited, so workerCount workers are alive.
C22_PanicCaught ==
  [][/\ \A w \in Workers :
          (workers[w].st = "busy" /\ workers'[w].st /= "busy")
            => /\ failures' = failures + 1
               /\ processed' = processed
               /\ workers'[w].st = "idle"
               /\ \A v \in Workers \ {w} : workers'[v] = workers[v]
     /\ failures' \in {failures, failures + 1}
     /\ (~closed' /\ ~cancelled')
          => Cardinality({w \in Workers : workers'[w].st /= "exited"}) = WorkerCount]_vars

\* after a panic every worker, the one that panicked included, holds a task,
\* and the pool is not shut down
C22_Witness ==
  /\ failures >= 1
  /\ processed = 0
  /\ \A w \in Workers : workers[w].st = "busy"
  /\ ~closed
  /\ ~cancelled

(***************************************************************************)
(* Specification: the SimulationManager, its two goroutines and one caller *)
(* of Start and Stop                                                       *)
(***************************************************************************)
\* the model follows the simulator through its first MaxSimUpdates updates
MaxSimUpdates == 7
\* with Start and Stop interleaved, the simulator's first MaxStopUpdates updates
MaxStopUpdates == 2
\* UpdateScore fails at most MaxSimErrors times
MaxSimErrors == 1
\* the batch sizes a SimulatorConfig may ask for: 1..MaxUpdatesPerTick
MaxUpdatesPerTick == 2

MinScoreChange == -50
MaxScoreChange == 50
\* the values of minScoreChange + rand.Intn(scoreRange) the model draws
ScoreChanges == {MinScoreChange, MaxScoreChange}

\* a clamp to the upper end of the valid range only
SimClampHigh(newRating) == IF newRating > MaxRating THEN MaxRating ELSE newRating

\* simulationLoop: clamp to valid range (100-5000)
SimClamp(newRating) ==
  IF newRating < MinRating THEN MinRating
  ELSE IF newRating > MaxRating THEN MaxRating
  ELSE newRating

\* the slot after the one the user was read from
SlotAfter(userIndex) == userIndex + 1

\* sm.users[userIndex-1], userIndex already advanced; slots count from 1 here
SlotWritten(userIndex) == (userIndex - 1) + 1

\* GetAllUsers: ORDER BY rating DESC, equal ratings in any order
RatingDesc(order) ==
  /\ order \in Orders(DOMAIN store)
  /\ \A i, j \in DOMAIN order : i < j => store[order[i]] >= store[order[j]]

\* the permutations rand.Shuffle can apply to the slots of sm.users
ShufflePerms == Orders(1..Cardinality(Users))

\* rand.Shuffle with the swaps that amount to perm
Shuffle(users, perm) == [i \in DOMAIN users |-> users[perm[i]]]

\* both goroutines Start launched have returned: wg.Wait() does not block
Joined == simLoop.pc \in {"none", "exited"} /\ reporter \in {"none", "exited"}

\* SimulationManager.Start; loaded: GetAllUsers returned without error, and
\* order is then the order of its rows (empty where Start does not get to use it)
StartCall(order, loaded) ==
  /\ Alive
  /\ simCall = "idle"
  /\ IF running
       THEN /\ order = <<>>
            /\ ret' = [op |-> "Start", err |-> "simulation already running"]
            /\ UNCHANGED <<simUsers, running, simLoop, reporter, pass, launches>>
     ELSE IF ~loaded
       THEN /\ order = <<>>
            /\ ret' = [op |-> "Start", err |-> "failed to load users"]
            /\ UNCHANGED <<simUsers, running, simLoop, reporter, pass, launches>>
     ELSE IF DOMAIN store = {}
       THEN /\ order = <<>>
            /\ ret' = [op |-> "Start", err |-> "no users available for simulation"]
            /\ UNCHANGED <<simUsers, running, simLoop, reporter, pass, launches>>
     ELSE /\ RatingDesc(order)
          /\ simUsers' = [i \in DOMAIN order |->
                            [Username |-> order[i], Rating |-> store[order[i]]]]
          /\ running' = TRUE
          /\ simLoop' = [pc |-> "select", userIndex |-> 0, left |-> 0]
          /\ reporter' = "select"
          /\ pass' = <<>>
          /\ launches' = launches + 1
          /\ ret' = [op |-> "Start", err |-> Nil]
  /\ UNCHANGED <<now, zset, hash, version, jobs, backpressure, processed, store, pipe,
                 zwritten, lastIn, calls, serialOk, accepted, workerVars, hubVars,
                 stopCh, simCall, totalUpdates, errorCount, updatesPerTick, simLast,
                 tableVars>>

\* Start called by a user of the SimulationManager
SimStart(order, loaded) == StartCall(order, loaded) /\ UNCHANGED mainVars

\* SimulationManager.Stop up to sm.wg.Wait(): close(sm.stopCh) panics when the
\* channel is closed already
StopCall ==
  /\ Alive
  /\ simCall = "idle"
  /\ IF ~running
       THEN /\ ret' = [op |-> "Stop", err |-> Nil, effective |-> FALSE]
            /\ UNCHANGED <<running, stopCh, simCall>>
     ELSE /\ running' = FALSE
          /\ IF stopCh = "closed"
               THEN /\ simCall' = "panicked"
                    /\ ret' = [op |-> "Stop", err |-> "panic: close of closed channel"]
                    /\ stopCh' = stopCh
               ELSE /\ simCall' = "waiting"
                    /\ stopCh' = "closed"
                    /\ ret' = ret
  /\ UNCHANGED <<now, zset, hash, version, jobs, backpressure, processed, store, pipe,
                 zwritten, lastIn, calls, serialOk, accepted, workerVars, hubVars,
                 simUsers, simLoop, reporter, totalUpdates, errorCount, updatesPerTick, pass,
                 simLast, launches, tableVars>>

\* SimulationManager.Stop: sm.wg.Wait() returns, Stop logs and returns
StopJoined ==
  /\ Alive
  /\ simCall = "waiting"
  /\ Joined
  /\ simCall' = "idle"
  /\ ret' = [op |-> "Stop", err |-> Nil, effective |-> TRUE]
  /\ UNCHANGED <<now, zset, hash, version, jobs, backpressure, processed, store, pipe,
                 zwritten, lastIn, calls, serialOk, accepted, workerVars, hubVars,
                 simUsers, running, stopCh, simLoop, reporter, totalUpdates,
                 errorCount, updatesPerTick, pass, simLast, launches, tableVars>>

\* Stop called by a user of the SimulationManager
SimStop == StopCall /\ UNCHANGED mainVars

SimStopReturn == StopJoined /\ UNCHANGED mainVars

\* simulationLoop: the select receives from sm.ticker.C
SimTick ==
  /\ Alive
  /\ simLoop.pc = "select"
  /\ simLoop' = [simLoop EXCEPT !.pc = "batch", !.left = updatesPerTick]
  /\ UNCHANGED <<now, zset, hash, version, jobs, backpressure, processed, store, ret, pipe,
                 zwritten, lastIn, calls, serialOk, accepted, workerVars, hubVars,
                 simUsers, running, stopCh, reporter, simCall, totalUpdates,
                 errorCount, updatesPerTick, pass, simLast, launches, mainVars, tableVars>>

\* simulationLoop: one iteration of the batch; the UpdateScore it calls reads
\* the clock NsLate nanoseconds after the previous reading; executed: the
\* pipeline reached the index
\* (Submit's send on a closed wp.jobs panics, in a goroutine that does not
\* recover: the process dies)
SimUpdate(perm, scoreChange, executed) ==
  LET wrap == simLoop.userIndex >= Len(simUsers)
      users == IF wrap THEN Shuffle(simUsers, perm) ELSE simUsers
      userIndex == (IF wrap THEN 0 ELSE simLoop.userIndex) + 1
      user == users[userIndex]
      newRating == SimClamp(user.Rating + scoreChange)
      left == simLoop.left - 1
  IN  /\ Alive
      /\ simLoop.pc = "batch"
      /\ Len(perm) = Len(simUsers)
      /\ ~wrap => perm = [i \in DOMAIN simUsers |-> i]
      /\ totalUpdates' = totalUpdates + 1
      /\ now' = [now EXCEPT !.ns = @ + NsLate]
      /\ IF executed
           THEN /\ PipelineExecuted(user.Username, ClampRating(newRating), now)
                /\ IF closed
                     THEN /\ UNCHANGED <<jobs, backpressure, accepted>>
                          /\ simUsers' = users
                          /\ process' = "crashed"
                     ELSE /\ Submit([Username |-> user.Username,
                                     Rating |-> ClampRating(newRating)])
                          /\ simUsers' = [users EXCEPT
                                            ![SlotWritten(userIndex)].Rating = newRating]
                          /\ process' = process
                /\ errorCount' = errorCount
           ELSE /\ errorCount < MaxSimErrors
                /\ UNCHANGED <<zset, hash, version, zwritten, jobs, backpressure, accepted>>
                /\ simUsers' = users
                /\ errorCount' = errorCount + 1
                /\ process' = process
      /\ simLoop' = [pc |-> IF left = 0 THEN "select" ELSE "batch",
                     userIndex |-> userIndex, left |-> left]
      /\ pass' = IF wrap THEN <<user.Username>> ELSE Append(pass, user.Username)
      /\ simLast' = [Username |-> user.Username, Rating |-> newRating, was |-> user.Rating,
                     scoreChange |-> scoreChange, ok |-> executed, wrap |-> wrap,
                     nth |-> updatesPerTick - left,
                     wraps |-> (IF simLoop.userIndex = 0 \/ simLast.op = "none" THEN 0
                                ELSE simLast.wraps) + (IF wrap THEN 1 ELSE 0),
                     op |-> "UpdateScore"]
      /\ UNCHANGED <<processed, store, ret, pipe, lastIn, calls, serialOk,
                     workerVars, hubVars, running, stopCh, reporter, simCall,
                     updatesPerTick, launches, mainpc, tableVars>>

\* simulationLoop: the select receives from the closed sm.stopCh
SimLoopExit ==
  /\ Alive
  /\ simLoop.pc = "select"
  /\ stopCh = "closed"
  /\ simLoop' = [simLoop EXCEPT !.pc = "exited"]
  /\ UNCHANGED <<now, zset, hash, version, jobs, backpressure, processed, store, ret, pipe,
                 zwritten, lastIn, calls, serialOk, accepted, workerVars, hubVars,
                 simUsers, running, stopCh, reporter, simCall, totalUpdates,
                 errorCount, updatesPerTick, pass, simLast, launches, mainVars, tableVars>>

\* metricsReporter: the select receives from the closed sm.stopCh
ReporterExit ==
  /\ Alive
  /\ reporter = "select"
  /\ stopCh = "closed"
  /\ reporter' = "exited"
  /\ UNCHANGED <<now, zset, hash, version, jobs, backpressure, processed, store, ret, pipe,
                 zwritten, lastIn, calls, serialOk, accepted, workerVars, hubVars,
                 simUsers, running, stopCh, simLoop, simCall, totalUpdates,
                 errorCount, updatesPerTick, pass, simLast, launches, mainVars, tableVars>>

\* the ticker fires while the simulator has made fewer than bound updates
SimTickWithin(bound) ==
  /\ totalUpdates < bound
  /\ SimTick

\* a manager constructed with any UpdatesPerTick >= 1
InitSim ==
  /\ Constructed
  /\ updatesPerTick \in 1..MaxUpdatesPerTick

NextSim ==
  \/ \E order \in AllOrders, loaded \in BOOLEAN : SimStart(order, loaded)
  \/ SimStop
  \/ SimStopReturn
  \/ SimTickWithin(MaxStopUpdates)
  \/ \E perm \in ShufflePerms, scoreChange \in ScoreChanges, executed \in BOOLEAN :
       SimUpdate(perm, scoreChange, executed)
  \/ SimLoopExit
  \/ ReporterExit

SpecSim == InitSim /\ [][NextSim]_vars

(***************************************************************************)
(* Specification: the simulator started once and left running              *)
(***************************************************************************)
NextLoop ==
  \/ \E order \in AllOrders, loaded \in BOOLEAN : SimStart(order, loaded)
  \/ SimTickWithin(MaxSimUpdates)
  \/ \E perm \in ShufflePerms, scoreChange \in ScoreChanges, executed \in BOOLEAN :
       SimUpdate(perm, scoreChange, executed)

SpecLoop == InitSim /\ [][NextLoop]_vars


\* the usernames of sm.users, slot by slot
SimNames(users) == [i \in DOMAIN users |-> users[i].Username]

\* the rating sm.users holds for username
SimRating(users, username) ==
  LET i == CHOOSE j \in DOMAIN users : users[j].Username = username
  IN  users[i].Rating

\* C28: a Start while the simulator is running is rejected and launches
\* nothing, no call of Stop fails, whether it follows a Start, no Start or
\* another Stop, and a Stop that stopped the simulator returns only after the
\* loop and the reporter have exited.
C28_SingleStartIdempotentStop ==
  [][/\ (running /\ ret' /= ret /\ ret'.op = "Start")
          => ret'.err /= Nil /\ launches' = launches /\ simLoop' = simLoop
     /\ simCall' /= "panicked"
     /\ (simCall = "waiting" /\ simCall' = "idle") => Joined]_vars

\* C29: an update the simulator made successfully leaves the new clamped
\* rating, the old one plus the score change, in the in-memory entry of the
\* user written and in the index, and every other entry as it was; a failed
\* update leaves every in-memory rating as it was; so in batches of every
\* size, a batch with a wrap and reshuffle in its middle included.
C29_CacheFollowsWrite ==
  [][totalUpdates' /= totalUpdates =>
       LET last == simLast'
       IN  /\ last.was = SimRating(simUsers, last.Username)
           /\ last.Rating = SimClamp(last.was + last.scoreChange)
           /\ \A i \in DOMAIN simUsers' :
                simUsers'[i].Rating =
                  IF last.ok /\ simUsers'[i].Username = last.Username
                    THEN last.Rating
                    ELSE SimRating(simUsers, simUsers'[i].Username)
           /\ last.ok => /\ last.Username \in DOMAIN zwritten'
                         /\ zwritten'[last.Username].rating = last.Rating]_vars

\* a batch of two whose second update wrapped, reshuffled and succeeded, the
\* user written then being another than the one in the slot before the shuffle
C29_Witness ==
  /\ simLast.op = "UpdateScore"
  /\ updatesPerTick >= 2
  /\ simLast.nth >= 2
  /\ simLast.wrap
  /\ simLast.ok
  /\ simLast.Rating /= simLast.was
  /\ simUsers[1].Username = simLast.Username
  /\ simUsers[1].Rating = simLast.Rating
  /\ pass = <<simLast.Username>>

serverVars == <<now, zset, hash, version, jobs, backpressure, processed, store, ret, pipe,
                zwritten, lastIn, calls, serialOk, accepted, workerVars, hubVars,
                simVars, tableVars>>

\* positions of the shutdown goroutine at which the listener accepts requests
ListenerOpen == {"serving", "signalled", "stopping", "simStopped"}

\* positions of the shutdown goroutine at which app.Listen has returned or is
\* about to: the listener is closed
ListenerClosed == {"listenerStopped", "storeClosed", "indexClosed"}

\* main: simulator.Start(simCtx), its error only logged; then app.Listen
MainStartSimulator(order, loaded) ==
  /\ mainpc = "boot"
  /\ StartCall(order, loaded)
  /\ mainpc' = "serving"
  /\ process' = process

\* a POST /api/v1/scores the listener accepted
HttpUpdateScore(username, rating) ==
  /\ Alive
  /\ mainpc \in ListenerOpen
  /\ PoolUpdateScore(username, rating)

\* the shutdown goroutine: <-quit receives SIGINT or SIGTERM
Signal ==
  /\ Alive
  /\ mainpc = "serving"
  /\ mainpc' = "signalled"
  /\ UNCHANGED <<serverVars, process>>

\* the shutdown goroutine: simulator.Stop() up to its wg.Wait()
MainStopSimulator ==
  /\ mainpc = "signalled"
  /\ StopCall
  /\ mainpc' = IF running THEN "stopping" ELSE "simStopped"
  /\ process' = process

\* the shutdown goroutine: simulator.Stop() returns
MainSimulatorStopped ==
  /\ mainpc = "stopping"
  /\ StopJoined
  /\ mainpc' = "simStopped"
  /\ process' = process

\* the shutdown goroutine: app.ShutdownWithContext(ctx) closes the listener
MainShutdownListener ==
  /\ Alive
  /\ mainpc = "simStopped"
  /\ mainpc' = "listenerStopped"
  /\ UNCHANGED <<serverVars, process>>

\* the shutdown goroutine: workerPool.Shutdown(30 * time.Second) is called
MainShutdownPool ==
  /\ mainpc = "listenerStopped"
  /\ ShutdownBegin

\* a worker leaves processTask; UpsertUser cannot succeed on a closed store
MainWorkerFinish(w, outcome) ==
  /\ outcome = "ok" => mainpc \notin {"storeClosed", "indexClosed"}
  /\ WorkerFinish(w, outcome)

\* the shutdown goroutine: workerPool.Shutdown has returned; postgresRepo.Close()
MainClosePostgres ==
  /\ Alive
  /\ mainpc = "listenerStopped"
  /\ shutdown \in {"drained", "timedout"}
  /\ mainpc' = "storeClosed"
  /\ UNCHANGED <<serverVars, process>>

\* the shutdown goroutine: redisRepo.Close(); the goroutine ends
MainCloseRedis ==
  /\ Alive
  /\ mainpc = "storeClosed"
  /\ mainpc' = "indexClosed"
  /\ UNCHANGED <<serverVars, process>>

\* main: app.Listen returns nil once the listener is closed, main returns and
\* the process exits, whatever its other goroutines are doing
MainReturn ==
  /\ Alive
  /\ mainpc \in ListenerClosed
  /\ process' = "exited"
  /\ UNCHANGED <<serverVars, mainpc>>

NextMain ==
  \/ \E order \in AllOrders, loaded \in BOOLEAN : MainStartSimulator(order, loaded)
  \/ HttpUpdateScore("a", MaxRating)
  \/ SimTickWithin(MaxStopUpdates)
  \/ \E perm \in ShufflePerms, scoreChange \in ScoreChanges, executed \in BOOLEAN :
       SimUpdate(perm, scoreChange, executed)
  \/ SimLoopExit
  \/ ReporterExit
  \/ \E w \in Workers : WorkerTake(w)
  \/ \E w \in Workers, outcome \in {"ok", "err"} : MainWorkerFinish(w, outcome)
  \/ \E w \in Workers : WorkerExit(w)
  \/ Signal
  \/ MainStopSimulator
  \/ MainSimulatorStopped
  \/ MainShutdownListener
  \/ MainShutdownPool
  \/ ShutdownDrained
  \/ ShutdownTimeout
  \/ MainClosePostgres
  \/ MainCloseRedis
  \/ MainReturn

SpecMain == Init /\ [][NextMain]_vars

\* C21: after SIGINT/SIGTERM the simulator is stopped before the listener,
\* the listener before the worker pool is shut down, the pool's Shutdown has
\* returned before the connections are closed, and the process does not exit
\* before the pool's Shutdown has returned and both connections are closed.
C21_OrderedShutdown ==
  /\ mainpc \in ListenerClosed => ~running /\ Joined
  /\ shutdown /= "none" => mainpc \in ListenerClosed
  /\ mainpc \in {"storeClosed", "indexClosed"} => shutdown \in {"drained", "timedout"}
  /\ process = "exited" => shutdown \in {"drained", "timedout"} /\ mainpc = "indexClosed"


(***************************************************************************)
(* Specification: the worker pool with two workers and calls for one user  *)
(***************************************************************************)
PairCount == 2
PairWorkers == 1..PairCount

InitPair ==
  /\ ConstructedWith(PairCount)
  /\ updatesPerTick = 1

NextPair ==
  \/ \E r \in RatingInputs : PoolUpdateScore("a", r)
  \/ \E w \in PairWorkers : WorkerTake(w)
  \/ \E w \in PairWorkers, outcome \in {"ok", "err"} : WorkerFinish(w, outcome)
  \/ \E w \in PairWorkers : WorkerExit(w)
  \/ ShutdownBegin
  \/ ShutdownDrained
  \/ ShutdownTimeout

SpecPair == InitPair /\ [][NextPair]_vars

\* C31: the pool does not order tasks by username: a worker that leaves
\* processTask with success has put its own task's rating in the store,
\* whatever the store held for that user and whatever the other worker is
\* doing, so of two accepted tasks for one user the one that finishes last
\* stays, which may be the older one while the index holds the newer.
C31_LastFinisherWins ==
  [][\A w \in PairWorkers :
       (workers[w].st = "busy" /\ workers'[w].st = "idle" /\ processed' = processed + 1)
         => /\ store' = HSet(store, workers[w].task.Username, workers[w].task.Rating)
            /\ \A v \in PairWorkers \ {w} : workers'[v] = workers[v]
            /\ jobs' = jobs]_vars

\* two calls for user a, both accepted and both persisted, the pool drained:
\* the store holds the rating of the first call, the index that of the second
C31_Witness ==
  /\ calls = 2
  /\ accepted = 2
  /\ processed = 2
  /\ shutdown = "drained"
  /\ jobs = <<>>
  /\ hash["a"] = ClampRating(lastIn["a"])
  /\ store["a"] /= hash["a"]
  /\ store["a"] /= StoredUsers["a"]


(***************************************************************************)
(* The write pump and the socket                                           *)
(***************************************************************************)
\* the messages of the text frames of a connection, in the order written
RECURSIVE Flatten(_)
Flatten(frames) ==
  IF frames = <<>> THEN <<>>
  ELSE (IF Head(frames).type = "text" THEN Head(frames).data ELSE <<>>) \o Flatten(Tail(frames))

IsPrefix(s, t) == Len(s) <= Len(t) /\ s = SubSeq(t, 1, Len(s))

\* C32: while no write to the socket has failed, what the write pump has
\* written, what it holds and what is queued are together exactly what was
\* enqueued, in enqueue order (so each message is written once, and a pump
\* that has exited on the closed queue has written them all); a text frame
\* carries the message received and no more than what was queued behind it
\* when the frame was written; the closed queue, once drained, makes the pump
\* write one close frame, as the last frame, and exit.
C32_PumpWritesInOrder ==
  [][\A c \in ClientIds :
       LET wire == sock'[c].wire
           written == Flatten(wire)
       IN  /\ IsPrefix(written, got'[c])
           /\ ~sock'[c].broken => written \o sock'[c].held \o send'[c] = got'[c]
           /\ \A i \in DOMAIN wire :
                IF wire[i].type = "close" THEN i = Len(wire) /\ pump'[c] = "exited"
                ELSE wire[i].data /= <<>>
           /\ (pump'[c] = "exited" /\ ~sock'[c].broken)
                => /\ sendClosed'[c]
                   /\ wire /= <<>>
                   /\ wire[Len(wire)].type = "close"
                   /\ written = got'[c]
           /\ (Len(wire) > Len(sock[c].wire) /\ wire[Len(wire)].type = "text")
                => /\ Len(wire[Len(wire)].data) = 1 + Len(send[c])
                   /\ wire[Len(wire)].data = sock[c].held \o send[c]
                   /\ send'[c] = <<>>]_vars

\* a client that was sent two versions in one frame, one of them enqueued
\* while the pump held the other, and then the close frame
C32_Witness ==
  \E c \in ClientIds :
    /\ pump[c] = "exited"
    /\ ~sock[c].broken
    /\ Len(sock[c].wire) = 2
    /\ Len(sock[c].wire[1].data) = 2
    /\ sock[c].wire[1].data[1] < sock[c].wire[1].data[2]
    /\ sock[c].wire[2].type = "close"


\* a step of the hub's loop: one of the cases of the select in Hub.Run
HubStep ==
  \/ \E c \in ClientIds, readOk \in BOOLEAN : HubRegister(c, readOk)
  \/ \E c \in ClientIds : HubUnregister(c)
  \/ \E readOk \in BOOLEAN : HubTick(readOk)

\* C33: in every interleaving of registrations, unregistrations, ticks and
\* initial sends, a message is enqueued only on a queue that is open and
\* belongs to a member of the subscriber set, no queue is closed twice, and
\* every enqueue, every close and every change of the subscriber set is a
\* step of the hub's loop.
C33_HubOwnsQueues ==
  [][/\ \A c \in ClientIds :
          /\ closes'[c] <= 1
          /\ sendClosed'[c] <=> closes'[c] = 1
          /\ Len(got'[c]) > Len(got[c])
               => ~sendClosed[c] /\ ~sendClosed'[c] /\ c \in clients'
     /\ (clients' /= clients \/ sendClosed' /= sendClosed \/ closes' /= closes \/ got' /= got)
          => HubStep]_vars

\* one client unregistered, its queue closed once after it was sent a
\* version, while the other client has since been sent a broadcast
C33_Witness ==
  \E c, d \in ClientIds :
    /\ c /= d
    /\ closes[c] = 1
    /\ got[c] /= <<>>
    /\ c \notin clients
    /\ d \in clients
    /\ Len(got[d]) >= 2
    /\ got[d][Len(got[d])] > got[c][Len(got[c])]


(***************************************************************************)
(* Specification: the shutdown sequence with an HTTP request in flight     *)
(***************************************************************************)
\* the connection whose handler the model follows
FlightCallers == {1}

\* the listener accepts POST /api/v1/scores: LeaderboardHandler.UpdateScore
\* runs, up to the service's call of the index
FlightBegin(c, username, rating) ==
  /\ Alive
  /\ mainpc \in ListenerOpen
  /\ pipe[c].pc = "idle"
  /\ version < MaxCalls
  /\ pipe' = [pipe EXCEPT ![c] = [pc |-> "handler", username |-> username, in |-> rating,
                                  rating |-> ClampRating(rating)]]
  /\ UNCHANGED <<now, zset, hash, version, jobs, backpressure, processed, store, ret,
                 zwritten, lastIn, calls, serialOk, accepted, workerVars, hubVars, restVars>>

\* LeaderboardService.UpdateScore: the pipeline executes and the task is
\* submitted; a send on the closed wp.jobs panics
FlightReturn(c) ==
  /\ Alive
  /\ pipe[c].pc = "handler"
  /\ now' \in Later(now)
  /\ PipelineExecuted(pipe[c].username, pipe[c].rating, now)
  /\ IF closed
       THEN /\ ret' = [op |-> "UpdateScore", err |-> "panic: send on closed channel"]
            /\ serialOk' = FALSE
            /\ UNCHANGED <<jobs, backpressure, accepted, lastIn, calls>>
       ELSE /\ Submit([Username |-> pipe[c].username, Rating |-> pipe[c].rating])
            /\ ret' = [op |-> "UpdateScore", err |-> Nil]
            /\ lastIn' = HSet(lastIn, pipe[c].username, pipe[c].in)
            /\ calls' = calls + 1
            /\ serialOk' = serialOk
  /\ pipe' = [pipe EXCEPT ![c] = [pc |-> "idle"]]
  /\ UNCHANGED <<processed, store, workerVars, hubVars, restVars>>

\* app.ShutdownWithContext returns nil: no connection is active any more
MainShutdownGraceful ==
  /\ InFlight = {}
  /\ MainShutdownListener

\* app.ShutdownWithContext returns the context's error after its 10 seconds:
\* "Server forced to shutdown", with a handler still running
MainShutdownForced ==
  /\ InFlight /= {}
  /\ MainShutdownListener

NextFlight ==
  \/ \E order \in AllOrders, loaded \in BOOLEAN : MainStartSimulator(order, loaded)
  \/ \E c \in FlightCallers : FlightBegin(c, "a", MaxRating)
  \/ \E c \in FlightCallers : FlightReturn(c)
  \/ SimTickWithin(MaxStopUpdates)
  \/ \E perm \in ShufflePerms, scoreChange \in ScoreChanges, executed \in BOOLEAN :
       SimUpdate(perm, scoreChange, executed)
  \/ SimLoopExit
  \/ ReporterExit
  \/ \E w \in Workers : WorkerTake(w)
  \/ \E w \in Workers, outcome \in {"ok", "err"} : MainWorkerFinish(w, outcome)
  \/ \E w \in Workers : WorkerExit(w)
  \/ Signal
  \/ MainStopSimulator
  \/ MainSimulatorStopped
  \/ MainShutdownGraceful
  \/ MainShutdownForced
  \/ MainShutdownPool
  \/ ShutdownDrained
  \/ ShutdownTimeout
  \/ MainClosePostgres
  \/ MainCloseRedis
  \/ MainReturn

SpecFlight == Init /\ [][NextFlight]_vars

\* C34: whatever the interleaving of requests in flight, simulator ticks and
\* the shutdown sequence, no UpdateScore reaches Submit with the pool's queue
\* closed: no handler's Submit panics and the simulator's does not either.
C34_NoSubmitAfterClose ==
  [][/\ ret'.err /= "panic: send on closed channel"
     /\ process' /= "crashed"
     /\ (accepted' /= accepted \/ backpressure' /= backpressure) => ~closed]_vars

(***************************************************************************)
(* The pool's counters                                                     *)
(***************************************************************************)
\* the tasks inside processTask: one per worker that has received a task and
\* has not yet returned from processTask
Executing(pool) == Cardinality({w \in DOMAIN pool : pool[w].st = "busy"})

\* C35: the pool's counters are conserved in every state: the Submit calls
\* that returned are the accepted tasks plus the backpressure events, and
\* the accepted tasks are the processed ones, the failed ones, those still in
\* the queue and those being executed; a counter of processed or failed
\* moves only when a task's execution ends, and then exactly one of the two
\* goes up, by one.
C35_CountersConserved ==
  [][/\ calls' = accepted' + backpressure'
     /\ accepted' = processed' + failures' + Len(jobs') + Executing(workers')
     /\ Executing(workers') < Executing(workers)
          => /\ Executing(workers') = Executing(workers) - 1
             /\ \/ processed' = processed + 1 /\ failures' = failures
                \/ processed' = processed /\ failures' = failures + 1
     /\ Executing(workers') >= Executing(workers)
          => processed' = processed /\ failures' = failures]_vars

\* a run with a dropped Submit, a task stored and a task failed
C35_Witness ==
  /\ backpressure > 0
  /\ processed > 0
  /\ failures > 0
  /\ calls = accepted + backpressure

(***************************************************************************)
(* The hub's last-observed version                                         *)
(***************************************************************************)
\* C38: the hub's last-observed version never decreases and never exceeds
\* the index's version counter; a change of the index that the hub has not
\* observed (a tick whose read fails observes nothing and enqueues nothing)
\* stays unobserved until a tick whose read succeeds broadcasts it: the step
\* on which last-observed catches up with the index enqueues the index
\* version to every subscriber whose queue has slack.
C38_ObservedFollowsIndex ==
  [][/\ lastVersion' >= lastVersion
     /\ lastVersion' <= version'
     /\ (lastVersion < version /\ lastVersion' = version')
          => \A c \in clients :
               Len(send[c]) < SendCap => got'[c] = Append(got[c], version)]_vars

(***************************************************************************)
(* Rank and page                                                           *)
(***************************************************************************)
\* C39: when the members of the index have pairwise distinct composite
\* scores, GetUserRank of every member is 1 plus its zero-based position in
\* GetTopUsers(0, GetTotalUsers), and the ranks of the members are exactly
\* 1..GetTotalUsers.
C39_RankMatchesPosition ==
  (\A u, v \in DOMAIN zset : u /= v => zset[u] /= zset[v]) =>
    LET top == GetTopUsers(0, GetTotalUsers)
    IN  /\ Len(top) = GetTotalUsers
        /\ \A i \in 1..Len(top) : GetUserRank(top[i].Member).rank = i
        /\ {GetUserRank(u).rank : u \in DOMAIN zset} = 1..GetTotalUsers

(***************************************************************************)
(* Specification: one subscriber and the hub loop until it returns, with   *)
(* the scheduling the runtime provides: a goroutine that can take a step   *)
(* eventually takes it, and a ready case of the hub's select is eventually *)
(* chosen                                                                  *)
(***************************************************************************)
LiveClients == {1}

\* Hub.Run, case <-ctx.Done(): return; from here on nothing receives from
\* h.register and h.unregister
HubStop ==
  /\ ~hubDone
  /\ hubDone' = TRUE
  /\ UNCHANGED <<now, zset, hash, version, jobs, backpressure, processed, store, ret, pipe,
                 zwritten, lastIn, calls, serialOk, accepted, workerVars, restVars, sock,
                 clients, lastVersion, send, sendClosed, conn, pump, got, regVersion, closes>>

NextLive ==
  \/ UpdateScoreOk("a", 500)
  \/ \E c \in LiveClients : Connect(c)
  \/ \E c \in LiveClients, readOk \in BOOLEAN : HubRegister(c, readOk)
  \/ \E c \in LiveClients : ReadError(c)
  \/ \E c \in LiveClients : HubUnregister(c)
  \/ \E readOk \in BOOLEAN : HubTick(readOk)
  \/ \E c \in LiveClients : WritePumpReceive(c)
  \/ \E c \in LiveClients : WritePumpWrite(c)
  \/ \E c \in LiveClients, writeFailed \in BOOLEAN : WritePumpExit(c, writeFailed)
  \/ HubStop

\* the hub loop serves a pending unregister and a tick whose read succeeds;
\* writePump receives, writes and returns
SpecLive ==
  /\ Init
  /\ [][NextLive]_vars
  /\ \A c \in LiveClients : WF_vars(HubUnregister(c))
  /\ WF_vars(HubTick(TRUE))
  /\ \A c \in LiveClients : WF_vars(WritePumpReceive(c))
  /\ \A c \in LiveClients : WF_vars(WritePumpWrite(c))
  /\ \A c \in LiveClients : WF_vars(\E writeFailed \in BOOLEAN : WritePumpExit(c, writeFailed))

\* C36: a subscriber whose readPump has hit a read error is eventually out of
\* the subscriber set with its outbound queue closed, its unregister request
\* taken (readPump returns) and its writePump returned, also when the hub
\* loop has stopped.
C36_ReadErrorLeadsToRemoval ==
  \A c \in LiveClients :
    (conn[c] = "leaving") ~>
      (c \notin clients /\ sendClosed[c] /\ conn[c] = "left" /\ pump[c] = "exited")

\* C37: a registered subscriber that has not been sent the version the index
\* has reached is eventually sent that version or a greater one (or has left,
\* or the hub loop has stopped), without any further write.
C37_SubscriberCatchesUp ==
  \A c \in LiveClients : \A v \in 1..MaxWrites :
    (c \in clients /\ version >= v) ~>
      (c \notin clients \/ hubDone \/ \E i \in DOMAIN got[c] : got[c][i] >= v)

====
